---------------------------- MODULE Spec2Model ----------------------------
(***************************************************************************)
(* Klotho engine: Engine.Run / Engine.SolveGraph (pkg/engine/engine.go),   *)
(* EdgeKB.FindPaths / ExpandEdges (pkg/knowledge_base/edge_kb.go) and the  *)
(* graph operations UpdateResourceId / RemoveResource (pkg/query/node.go). *)
(***************************************************************************)
EXTENDS Integers, Sequences, FiniteSets, TLC

VARIABLES
    pc,               \* position inside Run / SolveGraph
    numContexts,      \* len(contextsToSolve)
    ctx,              \* index of the context Run is solving (1-based), 0 before the loop
    i,                \* SolveGraph: loop variable i
    iterations,       \* SolveGraph: number of loop bodies entered in the current call
    errorMap,         \* SolveGraph: errorMap map[int][]error
    configuredEdges,  \* SolveGraph: configuredEdges (set of <<src, dst>>)
    graph,            \* SolveGraph: context.ResourceGraph
    operational,      \* SolveGraph: operationalResources of the last MakeResourcesOperational
    satisfied,        \* constraints that IsSatisfied holds for on the current graph
    unsatisfied,      \* SolveGraph: unsatisfiedConstraints of the current iteration
    retErr,           \* SolveGraph: the returned error
    results,          \* per solved context: what SolveGraph returned
    Solution,         \* e.Context.Solution: index of the context whose graph it is, 0 = nil
    numValidGraphs,   \* Run: numValidGraphs
    runRet,           \* what Run returned
    resGraph,         \* construct2 graph: [verts: ResourceId -> *Resource, edges]
    opCount,          \* graph operations called so far
    lastOp,           \* the last UpdateResourceId / RemoveResource call and its result
    detKb,            \* the knowledge base of the compared executions of Run
    detExec,          \* the execution of Run that is going on
    detPc,            \* its position
    detToSolve,       \* contextsToSolve
    detCtx,           \* index of the context SolveGraph works on
    detI,             \* loop variable of that SolveGraph
    detGraph,         \* its graph
    detErr,           \* whether it returned an error
    detSolution,      \* e.Context.Solution: <<>> is nil
    detReturned,      \* what the finished executions returned
    callName,         \* the function that is called on its own
    callIn,           \* its arguments
    callOut,          \* what it returned, NotReturned before
    cancelRequested,  \* the caller of Run has asked for the run to be cancelled
    orch,             \* Orchestrator: mu, infraGenerator and what NewInfraGenerator did
    routines          \* the goroutines that call Orchestrator.InfraGenerator

engineVars == <<pc, numContexts, ctx, i, iterations, errorMap, configuredEdges,
                graph, operational, satisfied, unsatisfied,
                retErr, results, Solution, numValidGraphs, runRet>>

graphVars == <<resGraph, opCount, lastOp>>

detVars == <<detKb, detExec, detPc, detToSolve, detCtx, detI, detGraph, detErr,
             detSolution, detReturned>>

callVars == <<callName, callIn, callOut>>

\* what belongs to the caller of Run: no function of the engine reads or
\* writes it
callerVars == <<cancelRequested>>

orchVars == <<orch, routines>>

\* what the engine's actions leave alone
notEngineVars == <<graphVars, detVars, callVars, callerVars, orchVars>>

\* what the graph operations leave alone
notGraphVars == <<engineVars, detVars, callVars, callerVars, orchVars>>

\* what the compared executions leave alone
notDetVars == <<engineVars, graphVars, callVars, callerVars, orchVars>>

\* what a function called on its own leaves alone
notCallVars == <<engineVars, graphVars, detVars, callerVars, orchVars>>

\* what the goroutines of the orchestrator leave alone
notOrchVars == <<engineVars, graphVars, detVars, callVars, callerVars>>

vars == <<engineVars, graphVars, detVars, callVars, callerVars, orchVars>>

-----------------------------------------------------------------------------
(* Bounds and program constants *)

\* SolveGraph: NUM_LOOPS := 5
NUM_LOOPS == 5

\* largest number of SolveContexts GenerateCombinations hands to Run
MaxContexts == 2

\* resources of a context's graph, in ListResources order
ResOrder == <<"a", "b", "c", "d">>

Resources == {ResOrder[n] : n \in 1..Len(ResOrder)}

\* the constraints of e.Context.Constraints, in iteration order
ConstraintOrder == <<"c1">>

Constraints == {ConstraintOrder[n] : n \in 1..Len(ConstraintOrder)}

\* the graph GenerateCombinations builds for a context
BaseGraph == [res |-> {"a", "b"}, deps |-> {<<"a", "b">>}]

\* the resources MakeResourcesOperational may fail to make operational
Pending == {"b"}

\* the operationalResources maps MakeResourcesOperational may return
OperationalOutcomes(g) == {g.res \ p : p \in SUBSET (Pending \cap g.res)}

NoError == [kind |-> "nil", items |-> <<>>]

-----------------------------------------------------------------------------
(* Helpers *)

\* position of r in ListResources order
ResIndex(r) == CHOOSE n \in 1..Len(ResOrder) : ResOrder[n] = r

\* graph.ListResources(): the resources in a stable order
ListResources(g) == SelectSeq(ResOrder, LAMBDA r : r \in g.res)

\* all pairs in a stable order
DepOrder ==
    [n \in 1..(Len(ResOrder) * Len(ResOrder)) |->
        <<ResOrder[((n - 1) \div Len(ResOrder)) + 1],
          ResOrder[((n - 1) % Len(ResOrder)) + 1]>>]

\* graph.ListDependencies(): the dependencies in a stable order
ListDependencies(g) == SelectSeq(DepOrder, LAMBDA d : d \in g.deps)

\* errorMap[j] read as Go reads a map: nil for a missing key
ErrorsAt(m, j) == IF j \in DOMAIN m THEN m[j] ELSE <<>>

\* errorMap[j] = append(errorMap[j], errs...)
AppendErrors(m, j, errs) ==
    IF errs = <<>> THEN m
    ELSE [k \in (DOMAIN m) \cup {j} |-> IF k = j THEN ErrorsAt(m, j) \o errs ELSE m[k]]

\* the elements of a sequence
Range(s) == {s[n] : n \in 1..Len(s)}

\* a graph with no vertex and no edge
EmptyGraph == [verts |-> [k \in {} |-> ""], objs |-> [k \in {} |-> ""], edges |-> {}]

\* no graph operation has been called
NoOp == [name |-> "none", id |-> "", newId |-> "", errs |-> {}, before |-> EmptyGraph]

-----------------------------------------------------------------------------
(* Engine.SolveGraph *)

\* errorMap := make(map[int][]error)
EmptyErrorMap == [k \in {} |-> <<>>]

\* a loop that runs once more: i <= NUM_LOOPS
LoopCondition_OneMore(j) == j <= NUM_LOOPS

\* for i := 0; i < NUM_LOOPS; i++
LoopCondition(j) == j < NUM_LOOPS

\* the error values SolveGraph records: <<kind, iteration, subject>>
ExpandError(j) == <<"expandEdges", j, "">>

ConfigureError(j, d) == <<"ConfigureEdge", j, d[1] \o "->" \o d[2]>>

OperationalError(j) == <<"MakeResourcesOperational", j, "">>

NotOperationalError(j, r) == <<"resource is not operational", j, r>>

UnsatisfiedError(j, c) == <<"unsatisfied constraint", j, c>>

\* the configure loop without the lookup in configuredEdges
ConfigureErrors_AlsoConfigured(g, configured, failed, j) ==
    LET todo == SelectSeq(ListDependencies(g), LAMBDA d : d \in failed)
    IN  [n \in 1..Len(todo) |-> ConfigureError(j, todo[n])]

\* the body of the configure loop: one error per dependency whose ConfigureEdge failed
ConfigureErrors(g, configured, failed, j) ==
    LET todo == SelectSeq(ListDependencies(g), LAMBDA d : d \notin configured /\ d \in failed)
    IN  [n \in 1..Len(todo) |-> ConfigureError(j, todo[n])]

\* configuredEdges after the configure loop
ConfiguredAfter(g, configured, failed) ==
    configured \cup {d \in g.deps : d \notin configured /\ d \notin failed}

\* the check that every resource is operational: one error per resource that is not
NotOperationalErrors(g, ops, j) ==
    LET bad == SelectSeq(ListResources(g), LAMBDA r : r \notin ops)
    IN  [n \in 1..Len(bad) |-> NotOperationalError(j, bad[n])]

\* Engine.ValidateConstraints: the constraints IsSatisfied rejects, in order
ValidateConstraints(sat) == SelectSeq(ConstraintOrder, LAMBDA c : c \notin sat)

\* fmt.Errorf("unsatisfied constraints: %s", constraintsString)
UnsatisfiedConstraintsError(unsat, j) ==
    [kind |-> "unsatisfied constraints",
     items |-> [n \in 1..Len(unsat) |-> UnsatisfiedError(j, unsat[n])]]

\* joining the errors of every iteration so far instead of errorMap[i] alone
JoinedErrors_Accumulated(m, j) ==
    LET upTo[k \in 0..j] == IF k = 0 THEN ErrorsAt(m, 0) ELSE upTo[k - 1] \o ErrorsAt(m, k)
    IN  upTo[j]

\* the errors joined into "found the following errors during graph solving"
JoinedErrors(m, j) == ErrorsAt(m, j)

SolvingError(m, j) ==
    [kind |-> "found the following errors during graph solving",
     items |-> JoinedErrors(m, j)]

\* what the end of an iteration does, once validation ran
IterationVerdict(unsat, errs, j) ==
    IF Len(unsat) > 0 /\ j = NUM_LOOPS - 1 THEN "return unsatisfied"
    ELSE IF Len(errs) = 0 THEN "break"
    ELSE IF j = NUM_LOOPS - 1 THEN "return errors"
    ELSE "next"

\* return graph, err
SolveReturn(err) ==
    /\ retErr' = err
    /\ pc' = "solved"

\* the loop head: enter the body, or fall out of the loop and return graph, nil
SolveLoopHead ==
    /\ pc = "loop"
    /\ IF LoopCondition(i)
       THEN /\ pc' = "expand"
            /\ iterations' = iterations + 1
            /\ unsatisfied' = <<>>
            /\ UNCHANGED retErr
       ELSE /\ SolveReturn(NoError)
            /\ UNCHANGED <<iterations, unsatisfied>>
    /\ UNCHANGED <<numContexts, ctx, i, errorMap, configuredEdges, graph, operational,
                   satisfied, results, Solution, numValidGraphs, runRet>>
    /\ UNCHANGED notEngineVars

\* err := e.expandEdges(graph)
SolveExpandEdges(err) ==
    /\ pc = "expand"
    /\ IF err
       THEN /\ errorMap' = AppendErrors(errorMap, i, <<ExpandError(i)>>)
            /\ pc' = "operational"
       ELSE /\ pc' = "configure"
            /\ UNCHANGED errorMap
    /\ UNCHANGED <<numContexts, ctx, i, iterations, configuredEdges, graph, operational,
                   satisfied, unsatisfied, retErr, results, Solution, numValidGraphs,
                   runRet>>
    /\ UNCHANGED notEngineVars

\* for _, dep := range graph.ListDependencies() { ... ConfigureEdge ... }
SolveConfigureEdges(failed) ==
    /\ pc = "configure"
    /\ errorMap' = AppendErrors(errorMap, i, ConfigureErrors(graph, configuredEdges, failed, i))
    /\ configuredEdges' = ConfiguredAfter(graph, configuredEdges, failed)
    /\ pc' = "operational"
    /\ UNCHANGED <<numContexts, ctx, i, iterations, graph, operational, satisfied,
                   unsatisfied, retErr, results, Solution, numValidGraphs, runRet>>
    /\ UNCHANGED notEngineVars

\* operationalResources, err := e.MakeResourcesOperational(graph); sat: the constraints
\* IsSatisfied accepts on the graph as this last mutation of the iteration leaves it
SolveMakeOperational(err, ops, sat) ==
    /\ pc = "operational"
    /\ satisfied' = sat
    /\ IF err
       THEN /\ errorMap' = AppendErrors(errorMap, i, <<OperationalError(i)>>)
            /\ i' = i + 1
            /\ pc' = "loop"
            /\ UNCHANGED operational
       ELSE /\ operational' = ops
            /\ pc' = "validate"
            /\ UNCHANGED <<errorMap, i>>
    /\ UNCHANGED <<numContexts, ctx, iterations, configuredEdges, graph,
                   unsatisfied, retErr, results, Solution, numValidGraphs, runRet>>
    /\ UNCHANGED notEngineVars

\* unsatisfiedConstraints := e.ValidateConstraints(context) and the rest of the body
SolveValidate ==
    /\ pc = "validate"
    /\ LET unsat == ValidateConstraints(satisfied)
           last == Len(unsat) > 0 /\ i = NUM_LOOPS - 1
           m == IF last THEN errorMap
                ELSE AppendErrors(errorMap, i, NotOperationalErrors(graph, operational, i))
           verdict == IterationVerdict(unsat, ErrorsAt(m, i), i)
       IN  /\ unsatisfied' = unsat
           /\ errorMap' = m
           /\ CASE verdict = "return unsatisfied" ->
                     /\ SolveReturn(UnsatisfiedConstraintsError(unsat, i))
                     /\ UNCHANGED i
                [] verdict = "break" ->
                     /\ SolveReturn(NoError)
                     /\ UNCHANGED i
                [] verdict = "return errors" ->
                     /\ SolveReturn(SolvingError(m, i))
                     /\ UNCHANGED i
                [] OTHER ->
                     /\ i' = i + 1
                     /\ pc' = "loop"
                     /\ UNCHANGED retErr
    /\ UNCHANGED <<numContexts, ctx, iterations, configuredEdges, graph, operational,
                   satisfied, results, Solution, numValidGraphs, runRet>>
    /\ UNCHANGED notEngineVars

-----------------------------------------------------------------------------
(* Engine.Run *)

\* the constraints, ExpandConstructs and GenerateCombinations before the loop
RunStart(ok) ==
    /\ pc = "start"
    /\ IF ok
       THEN /\ pc' = "run"
            /\ UNCHANGED runRet
       ELSE /\ pc' = "done"
            /\ runRet' = [graph |-> 0, err |-> "error"]
    /\ UNCHANGED <<numContexts, ctx, i, iterations, errorMap, configuredEdges, graph,
                   operational, satisfied, unsatisfied, retErr, results, Solution,
                   numValidGraphs>>
    /\ UNCHANGED notEngineVars

\* for _, context := range contextsToSolve { solution, err := e.SolveGraph(context)
RunCallSolveGraph ==
    /\ pc = "run"
    /\ ctx < numContexts
    /\ ctx' = ctx + 1
    /\ i' = 0
    /\ iterations' = 0
    /\ errorMap' = EmptyErrorMap
    /\ configuredEdges' = {}
    /\ graph' = BaseGraph
    /\ operational' = {}
    /\ unsatisfied' = <<>>
    /\ retErr' = NoError
    /\ pc' = "loop"
    /\ UNCHANGED <<numContexts, satisfied, results, Solution, numValidGraphs, runRet>>
    /\ UNCHANGED notEngineVars

\* the Solution a returned graph leaves in e.Context.Solution
SolutionAfter(current, solved) == IF current = 0 THEN solved ELSE current

\* if e.Context.Solution == nil { e.Context.Solution = solution }; numValidGraphs++
\* (SolveGraph's locals go out of scope)
RunTakeResult ==
    /\ pc = "solved"
    /\ results' = Append(results, [failed |-> retErr # NoError, graph |-> graph])
    /\ Solution' = SolutionAfter(Solution, ctx)
    /\ numValidGraphs' = numValidGraphs + 1
    /\ pc' = "run"
    /\ i' = 0
    /\ iterations' = 0
    /\ errorMap' = EmptyErrorMap
    /\ configuredEdges' = {}
    /\ operational' = {}
    /\ satisfied' = {}
    /\ unsatisfied' = <<>>
    /\ retErr' = NoError
    /\ UNCHANGED <<numContexts, ctx, graph, runRet>>
    /\ UNCHANGED notEngineVars

\* the error Run returns after the loop
RunError == "nil"

\* return e.Context.Solution, nil
RunReturn ==
    /\ pc = "run"
    /\ ctx = numContexts
    /\ runRet' = [graph |-> Solution, err |-> RunError]
    /\ pc' = "done"
    /\ UNCHANGED <<numContexts, ctx, i, iterations, errorMap, configuredEdges, graph,
                   operational, satisfied, unsatisfied, retErr, results, Solution,
                   numValidGraphs>>
    /\ UNCHANGED notEngineVars

-----------------------------------------------------------------------------
(* Specification of one Engine.Run *)

EngineInit ==
    /\ pc = "start"
    /\ numContexts \in 1..MaxContexts
    /\ ctx = 0
    /\ i = 0
    /\ iterations = 0
    /\ errorMap = EmptyErrorMap
    /\ configuredEdges = {}
    /\ graph = BaseGraph
    /\ operational = {}
    /\ satisfied = {}
    /\ unsatisfied = <<>>
    /\ retErr = NoError
    /\ results = <<>>
    /\ Solution = 0
    /\ numValidGraphs = 0
    /\ runRet = [graph |-> 0, err |-> "none"]

\* no graph operation is running
GraphIdle ==
    /\ resGraph = EmptyGraph
    /\ opCount = 0
    /\ lastOp = NoOp

\* no execution of Run is compared
DetIdle ==
    /\ detKb = {}
    /\ detExec = 0
    /\ detPc = "idle"
    /\ detToSolve = <<>>
    /\ detCtx = 0
    /\ detI = 0
    /\ detGraph = [res |-> {}, deps |-> {}]
    /\ detErr = FALSE
    /\ detSolution = <<>>
    /\ detReturned = <<>>

\* a call that has not returned
NotReturned == [returned |-> FALSE]

\* no function is called on its own
CallsIdle ==
    /\ callName = "none"
    /\ callIn = <<>>
    /\ callOut = NotReturned

\* no cancellation has been asked for
NotCanceled == cancelRequested = FALSE

\* a nil *InfraGenerator, and sync.Mutex unlocked
Nil == 0
NoHolder == 0

\* NewOrchestrator: the mutex unlocked and infraGenerator nil; allocated
\* counts the InfraGenerator values NewInfraGenerator made, succeeded its
\* calls that returned a nil error
NewOrchestrator == [mu |-> NoHolder, infraGenerator |-> Nil, allocated |-> 0, succeeded |-> 0]

\* no goroutine calls Orchestrator.InfraGenerator
OrchIdle ==
    /\ orch = NewOrchestrator
    /\ routines = <<>>

\* the caller asks for the run to be cancelled while a context is being
\* solved; Run and SolveGraph take no token (engine.go:97, 234)
RequestCancel ==
    /\ pc \in {"loop", "expand", "configure", "operational", "validate"}
    /\ ~cancelRequested
    /\ cancelRequested' = TRUE
    /\ UNCHANGED <<engineVars, graphVars, detVars, callVars, orchVars>>

Init == EngineInit /\ GraphIdle /\ DetIdle /\ CallsIdle /\ NotCanceled /\ OrchIdle

Next ==
    \/ \E ok \in BOOLEAN : RunStart(ok)
    \/ RunCallSolveGraph
    \/ SolveLoopHead
    \/ \E err \in BOOLEAN : SolveExpandEdges(err)
    \/ \E failed \in SUBSET graph.deps : SolveConfigureEdges(failed)
    \/ \E err \in BOOLEAN, ops \in OperationalOutcomes(graph), sat \in SUBSET Constraints :
          SolveMakeOperational(err, ops, sat)
    \/ SolveValidate
    \/ RunTakeResult
    \/ RunReturn
    \/ RequestCancel

Spec == Init /\ [][Next]_vars

-----------------------------------------------------------------------------
(* construct2.UpdateResourceId and construct2.RemoveResource *)

\* resource ids, in a fixed order
KeyOrder == <<"a", "b", "c", "n">>

Keys == {KeyOrder[n] : n \in 1..Len(KeyOrder)}

\* the resources every initial graph holds
CoreKeys == {"a", "b", "c"}

\* the dependencies an initial graph may hold
EdgeUniverse == {<<"a", "b">>, <<"c", "a">>, <<"n", "b">>}

\* the graph operations of one behaviour
MaxGraphOps == 2

\* property values: a literal, a ResourceId, a PropertyRef, and a removed property
Lit == <<"lit", "">>

IdVal(id) == <<"ResourceId", id>>

RefVal(id) == <<"PropertyRef", id>>

Removed == <<"removed", "">>

\* the property values resources start with
InitialValues == {Lit, IdVal("a"), RefVal("a")}

\* a result: the graph as the call left it and the joined errors (nil is {})
Result(gr, errs) == [g |-> gr, errs |-> errs]

\* g.VertexWithProperties(id) / g.Vertex(id) finds the vertex
HasVertex(gr, id) == id \in DOMAIN gr.verts

\* the *Resource stored under id
VertexOf(gr, id) == gr.verts[id]

\* r.ID of the resource r
IdOf(gr, r) == gr.objs[r].ID

\* g.AddVertex(r): the vertex is keyed by r.ID
AddVertex(gr, r) ==
    IF HasVertex(gr, IdOf(gr, r))
    THEN Result(gr, {"ErrVertexAlreadyExists"})
    ELSE Result([gr EXCEPT !.verts = [k \in (DOMAIN gr.verts) \cup {IdOf(gr, r)} |->
                                         IF k = IdOf(gr, r) THEN r ELSE gr.verts[k]]], {})

\* g.AddEdge(source, target)
AddEdge(gr, source, target) ==
    IF ~HasVertex(gr, source) \/ ~HasVertex(gr, target)
    THEN Result(gr, {"ErrVertexNotFound"})
    ELSE IF <<source, target>> \in gr.edges
    THEN Result(gr, {"ErrEdgeAlreadyExists"})
    ELSE Result([gr EXCEPT !.edges = @ \cup {<<source, target>>}], {})

\* g.RemoveEdge(source, target)
RemoveEdge(gr, source, target) ==
    IF <<source, target>> \notin gr.edges
    THEN Result(gr, {"ErrEdgeNotFound"})
    ELSE Result([gr EXCEPT !.edges = @ \ {<<source, target>>}], {})

\* g.RemoveVertex(id)
RemoveVertex(gr, id) ==
    IF ~HasVertex(gr, id)
    THEN Result(gr, {"ErrVertexNotFound"})
    ELSE IF \E e \in gr.edges : e[1] = id \/ e[2] = id
    THEN Result(gr, {"ErrVertexHasEdges"})
    ELSE Result([gr EXCEPT !.verts = [k \in (DOMAIN gr.verts) \ {id} |-> gr.verts[k]]], {})

\* adj[id]: the edges out of id, in a fixed order
AdjacencyOf(gr, id) ==
    LET targets == SelectSeq(KeyOrder, LAMBDA t : <<id, t>> \in gr.edges)
    IN  [n \in 1..Len(targets) |-> <<id, targets[n]>>]

\* pred[id]: the edges into id, in a fixed order
PredecessorsOf(gr, id) ==
    LET sources == SelectSeq(KeyOrder, LAMBDA s : <<s, id>> \in gr.edges)
    IN  [n \in 1..Len(sources) |-> <<sources[n], id>>]

\* the endpoints the two loops put into `neighbors`
NeighborsOf_SuccessorsOnly(adj, pred) == {adj[n][2] : n \in 1..Len(adj)}

NeighborsOf(adj, pred) ==
    {adj[n][2] : n \in 1..Len(adj)} \cup {pred[n][1] : n \in 1..Len(pred)}

\* the first loop: every edge out of old is added from newId and removed from old
MoveOutEdges(gr, adj, newId) ==
    LET step[n \in 0..Len(adj)] ==
            IF n = 0 THEN Result(gr, {})
            ELSE LET added == AddEdge(step[n - 1].g, newId, adj[n][2])
                     removed == RemoveEdge(added.g, adj[n][1], adj[n][2])
                 IN  Result(removed.g, step[n - 1].errs \cup added.errs \cup removed.errs)
    IN  step[Len(adj)]

\* the second loop: every edge into old is added to newId and removed from old
MoveInEdges(gr, pred, newId) ==
    LET step[n \in 0..Len(pred)] ==
            IF n = 0 THEN Result(gr, {})
            ELSE LET added == AddEdge(step[n - 1].g, pred[n][1], newId)
                     removed == RemoveEdge(added.g, pred[n][1], pred[n][2])
                 IN  Result(removed.g, step[n - 1].errs \cup added.errs \cup removed.errs)
    IN  step[Len(pred)]

\* the loops of RemoveResource: every edge of the list is removed
RemoveEdges(gr, edges) ==
    LET step[n \in 0..Len(edges)] ==
            IF n = 0 THEN Result(gr, {})
            ELSE LET removed == RemoveEdge(step[n - 1].g, edges[n][1], edges[n][2])
                 IN  Result(removed.g, step[n - 1].errs \cup removed.errs)
    IN  step[Len(edges)]

\* the callback of UpdateResourceId: what the property should hold
UpdatedValue(value, old, newId) ==
    IF value = IdVal(old) THEN IdVal(newId)
    ELSE IF value = RefVal(old) THEN RefVal(newId)
    ELSE value

\* the callback of RemoveResource: what the property should hold
RemovedValue(value, id) ==
    IF value = IdVal(id) \/ value = RefVal(id) THEN Removed ELSE value

\* r.WalkProperties(fn): fn visits the property of r; a property fn leaves
\* alone is not written, a failing path.Set / path.Remove leaves it as it was
WalkProperties(gr, r, wanted, fails) ==
    IF wanted = gr.objs[r].prop THEN Result(gr, {})
    ELSE IF fails THEN Result(gr, {"property path error"})
    ELSE Result([gr EXCEPT !.objs[r].prop = wanted], {})

\* the last loop of UpdateResourceId over `neighbors`, in the order the map
\* yields them; the first error returns
UpdateNeighbors(gr, order, old, newId, failing) ==
    LET step[n \in 0..Len(order)] ==
            IF n = 0 THEN Result(gr, {})
            ELSE IF step[n - 1].errs # {} THEN step[n - 1]
            ELSE IF ~HasVertex(step[n - 1].g, order[n])
            THEN Result(step[n - 1].g, {"ErrVertexNotFound"})
            ELSE LET neighbor == VertexOf(step[n - 1].g, order[n])
                 IN  WalkProperties(step[n - 1].g, neighbor,
                         UpdatedValue(step[n - 1].g.objs[neighbor].prop, old, newId),
                         order[n] \in failing)
    IN  step[Len(order)]

\* the last loop of RemoveResource over `neighbors`
CleanNeighbors(gr, order, id, failing) ==
    LET step[n \in 0..Len(order)] ==
            IF n = 0 THEN Result(gr, {})
            ELSE IF step[n - 1].errs # {} THEN step[n - 1]
            ELSE IF ~HasVertex(step[n - 1].g, order[n])
            THEN Result(step[n - 1].g, {"ErrVertexNotFound"})
            ELSE LET neighbor == VertexOf(step[n - 1].g, order[n])
                 IN  WalkProperties(step[n - 1].g, neighbor,
                         RemovedValue(step[n - 1].g.objs[neighbor].prop, id),
                         order[n] \in failing)
    IN  step[Len(order)]

\* `if err != nil { return err }` after g.AddVertex
AddVertexFailed_Ignored(added) == FALSE

AddVertexFailed(added) == added.errs # {}

\* UpdateResourceId(g, old); order is the order the `neighbors` map is ranged
\* in, failing the resources whose property cannot be written
UpdateResourceId(gr, old, order, failing) ==
    IF ~HasVertex(gr, old) THEN Result(gr, {"ErrVertexNotFound"})
    ELSE LET r == VertexOf(gr, old)
             newId == IdOf(gr, r)
             added == AddVertex(gr, r)
             adj == AdjacencyOf(added.g, old)
             out == MoveOutEdges(added.g, adj, newId)
             pred == PredecessorsOf(out.g, old)
             into == MoveInEdges(out.g, pred, newId)
             removed == RemoveVertex(into.g, old)
             neighbors == NeighborsOf(adj, pred)
         IN  IF old = newId THEN Result(gr, {})
             ELSE IF AddVertexFailed(added) THEN added
             ELSE IF out.errs # {} THEN out
             ELSE IF into.errs # {} THEN into
             ELSE IF removed.errs # {} THEN removed
             ELSE UpdateNeighbors(removed.g, SelectSeq(order, LAMBDA k : k \in neighbors),
                                  old, newId, failing)

\* RemoveResource(g, id)
RemoveResource(gr, id, order, failing) ==
    IF ~HasVertex(gr, id) THEN Result(gr, {"ErrVertexNotFound"})
    ELSE LET r == VertexOf(gr, id)
             added == AddVertex(gr, r)
             adj == AdjacencyOf(added.g, id)
             out == RemoveEdges(added.g, adj)
             pred == PredecessorsOf(out.g, id)
             into == RemoveEdges(out.g, pred)
             neighbors == NeighborsOf(adj, pred)
             cleaned == CleanNeighbors(into.g, SelectSeq(order, LAMBDA k : k \in neighbors),
                                       id, failing)
         IN  IF added.errs # {} THEN added
             ELSE IF out.errs # {} THEN out
             ELSE IF into.errs # {} THEN into
             ELSE IF cleaned.errs # {} THEN cleaned
             ELSE RemoveVertex(cleaned.g, id)

\* the orders a Go map holding the keys S can be ranged in
Orders(S) == {s \in [1..Cardinality(S) -> S] : Range(s) = S}

\* the orders the `neighbors` map of a call on id can be ranged in
NeighborOrders(gr, id) == Orders(NeighborsOf(AdjacencyOf(gr, id), PredecessorsOf(gr, id)))

\* the neighbors whose property write fails during a call on id: none or one
\* (a call returns at the first neighbor that fails)
Failures(gr, id) ==
    {{}} \cup {{k} : k \in NeighborsOf(AdjacencyOf(gr, id), PredecessorsOf(gr, id))}

\* r.ID of a call's resource, old itself when there is no such vertex
NewIdOf(gr, old) == IF HasVertex(gr, old) THEN IdOf(gr, VertexOf(gr, old)) ELSE old

\* a graph of resources keyed by their ids, each with one property
InitialGraph(keys, edges, props) ==
    [verts |-> [k \in keys |-> k],
     objs  |-> [k \in keys |-> [ID |-> k, prop |-> props[k]]],
     edges |-> edges]

\* the engine is not running
EngineIdle ==
    /\ pc = "idle"
    /\ numContexts = 0
    /\ ctx = 0
    /\ i = 0
    /\ iterations = 0
    /\ errorMap = EmptyErrorMap
    /\ configuredEdges = {}
    /\ graph = BaseGraph
    /\ operational = {}
    /\ satisfied = {}
    /\ unsatisfied = <<>>
    /\ retErr = NoError
    /\ results = <<>>
    /\ Solution = 0
    /\ numValidGraphs = 0
    /\ runRet = [graph |-> 0, err |-> "none"]

\* a resource's ID field is changed in place; its vertex is still keyed by the
\* old id. One resource is renamed at a time.
ResourceIdChanges(k, newId) ==
    /\ HasVertex(resGraph, k)
    /\ \A v \in DOMAIN resGraph.verts : IdOf(resGraph, VertexOf(resGraph, v)) = v
    /\ newId # k
    /\ resGraph' = [resGraph EXCEPT !.objs[VertexOf(resGraph, k)].ID = newId]
    /\ lastOp' = NoOp
    /\ UNCHANGED <<opCount, notGraphVars>>

\* a call of UpdateResourceId(g, old)
DoUpdateResourceId(old, order, failing) ==
    /\ opCount < MaxGraphOps
    /\ LET ret == UpdateResourceId(resGraph, old, order, failing)
       IN  /\ resGraph' = ret.g
           /\ lastOp' = [name |-> "UpdateResourceId", id |-> old,
                         newId |-> NewIdOf(resGraph, old),
                         errs |-> ret.errs, before |-> resGraph]
    /\ opCount' = opCount + 1
    /\ UNCHANGED notGraphVars

\* a call of RemoveResource(g, id)
DoRemoveResource(id, order, failing) ==
    /\ opCount < MaxGraphOps
    /\ LET ret == RemoveResource(resGraph, id, order, failing)
       IN  /\ resGraph' = ret.g
           /\ lastOp' = [name |-> "RemoveResource", id |-> id,
                         newId |-> NewIdOf(resGraph, id),
                         errs |-> ret.errs, before |-> resGraph]
    /\ opCount' = opCount + 1
    /\ UNCHANGED notGraphVars

InitGraph ==
    /\ NotCanceled
    /\ OrchIdle
    /\ EngineIdle
    /\ DetIdle
    /\ CallsIdle
    /\ \E keys \in {CoreKeys, Keys}, edges \in SUBSET EdgeUniverse,
          props \in [Keys -> InitialValues] :
          /\ \A e \in edges : e[1] \in keys /\ e[2] \in keys
          /\ props["a"] # RefVal("a")
          /\ props["n"] = Lit
          /\ resGraph = InitialGraph(keys, edges, props)
    /\ opCount = 0
    /\ lastOp = NoOp

NextGraph ==
    \/ \E k \in Keys, newId \in Keys : ResourceIdChanges(k, newId)
    \/ \E old \in Keys :
          \E failing \in Failures(resGraph, old), order \in NeighborOrders(resGraph, old) :
              DoUpdateResourceId(old, order, failing)
    \/ \E id \in Keys :
          \E failing \in Failures(resGraph, id), order \in NeighborOrders(resGraph, id) :
              DoRemoveResource(id, order, failing)

SpecGraph == InitGraph /\ [][NextGraph]_vars

-----------------------------------------------------------------------------
(* EdgeKB.FindPaths, EdgeKB.ExpandEdges and Engine.GenerateCombinations.
   A resource stands for its type: a graph holds at most one resource of a type. *)

\* the edges a knowledge base may hold, as <<Source, Destination>>
KbEdgeUniverse ==
    {<<"a", "b">>, <<"b", "d">>, <<"a", "c">>, <<"c", "d">>, <<"a", "d">>, <<"d", "b">>}

\* EdgeDetails of the edges: d -> b carries data from b to d
EdgeDetails(e) ==
    [ReverseDirection  |-> e = <<"d", "b">>,
     ValidDestinations |-> IF e = <<"a", "d">> THEN {"d"} ELSE Resources]

\* kb.GetEdgeDetails(source, target) finds the edge
HasEdge(kb, source, target) == <<source, target>> \in kb

\* kb.GetEdgesWithSource(source); order is the order `range kb` yields the keys in
GetEdgesWithSource(kb, order, source) ==
    SelectSeq(order, LAMBDA e : e \in kb /\ e[1] = source)

\* kb.GetEdgesWithTarget(target)
GetEdgesWithTarget(kb, order, target) ==
    SelectSeq(order, LAMBDA e : e \in kb /\ e[2] = target)

\* kb.isValidForPath(edge, dest)
isValidForPath(e, dest) == dest \in EdgeDetails(e).ValidDestinations

\* cap of a stack of a length: the stack starts as []Edge{} and grows by one
\* append at a time, and append doubles the array of a full slice
SliceCap(len) == CHOOSE c \in {0, 1, 2, 4, 8, 16} :
                    c >= len /\ \A d \in {0, 1, 2, 4, 8, 16} : d >= len => c <= d

\* a slice of edges is an array of the heap and a length; the heap is the
\* sequence of the arrays allocated so far
NoStack == [arr |-> 0, len |-> 0]

SliceValue(heap, slice) == IF slice.len = 0 THEN <<>> ELSE SubSeq(heap[slice.arr], 1, slice.len)

\* append(stack, e): written into the array of the stack when it has room,
\* where every slice of that array sees it, else into a new array
appendEdge(heap, stack, e) ==
    IF stack.len < SliceCap(stack.len)
    THEN [heap  |-> [heap EXCEPT ![stack.arr] =
                        SubSeq(@, 1, stack.len) \o <<e>> \o SubSeq(@, stack.len + 2, Len(@))],
          stack |-> [arr |-> stack.arr, len |-> stack.len + 1]]
    ELSE [heap  |-> Append(heap, SliceValue(heap, stack) \o <<e>>),
          stack |-> [arr |-> Len(heap) + 1, len |-> stack.len + 1]]

\* kb.findPaths(source, dest, stack, visited): the slices appended to result,
\* in the order they are found, and the heap they point into
RECURSIVE findPaths(_, _, _, _, _, _, _)
findPaths(kb, order, source, dest, stack, visited, heap) ==
    IF source = dest
    THEN LET direct == IF stack.len = 0 /\ HasEdge(kb, source, dest)
                       THEN appendEdge(heap, stack, <<source, dest>>)
                       ELSE [heap |-> heap, stack |-> stack]
         IN  [result |-> IF direct.stack.len # 0 THEN <<direct.stack>> ELSE <<>>,
              heap   |-> direct.heap]
    ELSE LET seen == visited \cup {source}
             forward == SelectSeq(GetEdgesWithSource(kb, order, source),
                            LAMBDA e : /\ ~EdgeDetails(e).ReverseDirection
                                       /\ e[2] \notin seen
                                       /\ isValidForPath(e, dest))
             backward == SelectSeq(GetEdgesWithTarget(kb, order, source),
                            LAMBDA e : /\ EdgeDetails(e).ReverseDirection
                                       /\ e[1] \notin seen
                                       /\ isValidForPath(e, dest))
             walk(before, e, next) ==
                 LET pushed == appendEdge(before.heap, stack, e)
                     found == findPaths(kb, order, next, dest, pushed.stack, seen, pushed.heap)
                 IN  [result |-> before.result \o found.result, heap |-> found.heap]
             fwd[n \in 0..Len(forward)] ==
                 IF n = 0 THEN [result |-> <<>>, heap |-> heap]
                 ELSE walk(fwd[n - 1], forward[n], forward[n][2])
             bwd[n \in 0..Len(backward)] ==
                 IF n = 0 THEN fwd[Len(forward)]
                 ELSE walk(bwd[n - 1], backward[n], backward[n][1])
         IN  bwd[Len(backward)]

\* kb.FindPaths(source, dest): the paths as the caller reads them
FindPaths(kb, order, source, dest) ==
    LET found == findPaths(kb, order, source, dest, NoStack, {}, <<>>)
    IN  [n \in 1..Len(found.result) |-> SliceValue(found.heap, found.result[n])]

\* the resource types a path touches
TypesOf(path) == {path[n][1] : n \in 1..Len(path)} \cup {path[n][2] : n \in 1..Len(path)}

\* the paths that pass the NodeMustExist and NodeMustNotExist constraints of
\* the edge data (an empty set is a nil list)
ValidPaths(paths, mustExist, mustNotExist) ==
    SelectSeq(paths, LAMBDA p : /\ mustExist # {} => TypesOf(p) \cap mustExist # {}
                                /\ TypesOf(p) \cap mustNotExist = {})

\* "Get the shortest route": the first path no later one is shorter than, and
\* how often a path as long as the one held was met
ShortestPath(validPaths) ==
    LET pick[n \in 0..Len(validPaths)] ==
            IF n = 0 THEN [path |-> <<>>, ties |-> 0]
            ELSE IF Len(pick[n - 1].path) = 0 \/ Len(validPaths[n]) < Len(pick[n - 1].path)
            THEN [pick[n - 1] EXCEPT !.path = validPaths[n]]
            ELSE IF Len(validPaths[n]) = Len(pick[n - 1].path)
            THEN [pick[n - 1] EXCEPT !.ties = @ + 1]
            ELSE pick[n - 1]
    IN  pick[Len(validPaths)]

\* the errors ExpandEdges appends for a dependency
MultiplePathsError(dep) == <<"found multiple paths which satisfy constraints", dep>>

NoPathsError(dep) == <<"found no paths which satisfy constraints", dep>>

RemoveDependencyError(dep) == <<"RemoveDependency", dep>>

\* the ExpansionFunc of every edge of the path: both resources and the
\* dependency between them are in the graph afterwards
ExpandPath(dag, path) ==
    [dag EXCEPT !.res  = @ \cup TypesOf(path),
                !.deps = @ \cup {path[n] : n \in 1..Len(path)}]

\* the Constraint of the EdgeData a dependency of the graph carries; a graph
\* without edge data has nil lists
NoEdgeConstraint == [NodeMustExist |-> {}, NodeMustNotExist |-> {}]

EdgeConstraintOf(dag, dep) ==
    IF "data" \in DOMAIN dag /\ dep \in DOMAIN dag.data THEN dag.data[dep] ELSE NoEdgeConstraint

\* the path ExpandEdges selects for a dependency, and the ties it met
SelectedPath(dag, kb, order, dep) ==
    ShortestPath(ValidPaths(FindPaths(kb, order, dep[1], dep[2]),
                            EdgeConstraintOf(dag, dep).NodeMustExist,
                            EdgeConstraintOf(dag, dep).NodeMustNotExist))

\* the rest of the body of the loop of ExpandEdges once the path is picked:
\* errs are the errors so far and those of the ties
ExpandPicked(st, dep, picked, errs) ==
    IF Len(picked.path) = 0
    THEN [dag |-> st.dag, errs |-> Append(errs, NoPathsError(dep))]
    ELSE IF Len(picked.path) > 1 /\ dep \notin st.dag.deps
    THEN [dag |-> st.dag, errs |-> Append(errs, RemoveDependencyError(dep))]
    ELSE [dag |-> ExpandPath([st.dag EXCEPT !.deps = IF Len(picked.path) > 1
                                                     THEN @ \ {dep} ELSE @],
                             picked.path),
          errs |-> errs]

\* the errors of the ties joined to the errors so far
WithTies(st, dep, picked) ==
    ExpandPicked(st, dep, picked, st.errs \o [n \in 1..picked.ties |-> MultiplePathsError(dep)])

\* the body of the loop of ExpandEdges for one dependency
ExpandDependency(st, kb, order, dep) ==
    WithTies(st, dep, SelectedPath(st.dag, kb, order, dep))

\* kb.ExpandEdges(dag): the graph it leaves and the errors it joins
ExpandEdges(dag, kb, order) ==
    LET deps == ListDependencies(dag)
        step[n \in 0..Len(deps)] ==
            IF n = 0 THEN [dag |-> dag, errs |-> <<>>]
            ELSE ExpandDependency(step[n - 1], kb, order, deps[n])
    IN  step[Len(deps)]

\* the abstract constructs of the working state and the dependency between them
Constructs == {"x", "y"}

ConstructDependencies == <<(<<"x", "y">>)>>

\* an expansion solution: a graph holding one resource, which is directly mapped
OneResourceSolution(r) == [Graph |-> [res |-> {r}, deps |-> {}], DirectlyMappedResources |-> <<r>>]

\* e.Context.constructExpansionSolutions
constructExpansionSolutions ==
    [c \in Constructs |-> IF c = "x" THEN <<OneResourceSolution("a"), OneResourceSolution("c")>>
                          ELSE <<OneResourceSolution("d"), OneResourceSolution("b")>>]

\* only the first solution of resId joined to every combination
ExtendCombinations_FirstOnly(combinations, resId, sol) ==
    IF Len(combinations) = 0
    THEN [s \in 1..1 |-> [k \in {resId} |-> sol[s]]]
    ELSE [n \in 1..Len(combinations) |->
            [k \in (DOMAIN combinations[n]) \cup {resId} |->
                IF k = resId THEN sol[1] ELSE combinations[n][k]]]

\* one more solution of resId joined to every combination, as the loop over
\* constructExpansionSolutions does
ExtendCombinations(combinations, resId, sol) ==
    IF Len(combinations) = 0
    THEN [s \in 1..Len(sol) |-> [k \in {resId} |-> sol[s]]]
    ELSE [n \in 1..(Len(combinations) * Len(sol)) |->
            LET comb == combinations[((n - 1) \div Len(sol)) + 1]
                s == sol[((n - 1) % Len(sol)) + 1]
            IN  [k \in (DOMAIN comb) \cup {resId} |-> IF k = resId THEN s ELSE comb[k]]]

\* the EdgeData of a dependency that carries none
NoEdgeData == [NodeMustExist |-> {}, NodeMustNotExist |-> {}, EnvironmentVariables |-> {}]

\* e.Context.WorkingState of the executions that are compared: the abstract
\* constructs, the resources, the dependencies and their EdgeData
WorkingState ==
    [abstract  |-> Constructs,
     resources |-> {},
     deps      |-> Range(ConstructDependencies),
     data      |-> [dep \in Range(ConstructDependencies) |-> NoEdgeData]]

\* srcNodes and dstNodes of a dependency: the directly mapped resources of an
\* abstract construct, the resource itself otherwise
MappedNodes(ws, comb, id) ==
    IF id \notin ws.abstract THEN {id}
    ELSE IF id \in DOMAIN comb
    THEN Range(comb[id].DirectlyMappedResources)
    ELSE {}

\* the dependencies the loop over ListDependencies skips with "unable to find
\* resources for construct"
UnmappedDependencies(ws, comb) ==
    {dep \in ws.deps : \E id \in {dep[1], dep[2]} : id \in ws.abstract /\ id \notin DOMAIN comb}

\* the resource graph of one combination: the solutions' graphs and the
\* dependencies of the working state copied, with their data, to the
\* resources their ends are mapped to
CombinationGraph(ws, baseGraph, comb) ==
    LET copiedOf(dep) == MappedNodes(ws, comb, dep[1]) \X MappedNodes(ws, comb, dep[2])
        kept == ws.deps \ UnmappedDependencies(ws, comb)
        copied == UNION {copiedOf(dep) : dep \in kept}
    IN  [res  |-> baseGraph.res \cup UNION {comb[c].Graph.res : c \in DOMAIN comb},
         deps |-> baseGraph.deps \cup UNION {comb[c].Graph.deps : c \in DOMAIN comb} \cup copied,
         data |-> [e \in copied |-> ws.data[CHOOSE dep \in kept : e \in copiedOf(dep)]]]

\* e.GenerateCombinations(): the graphs of the SolveContexts, their
\* constructsMapping and the joined error; order is the order the map of
\* solutions is ranged in
GenerateCombinations(ws, solutions, order) ==
    LET baseGraph == [res |-> ws.resources, deps |-> {}, data |-> [e \in {} |-> NoEdgeData]]
        combinations[n \in 0..Len(order)] ==
            IF n = 0 THEN <<>>
            ELSE ExtendCombinations(combinations[n - 1], order[n], solutions[order[n]])
        all == combinations[Len(order)]
    IN  IF Len(order) = 0
        THEN [contexts |-> <<baseGraph>>, mappings |-> <<[c \in {} |-> 0]>>, err |-> {}]
        ELSE [contexts |-> [n \in 1..Len(all) |-> CombinationGraph(ws, baseGraph, all[n])],
              mappings |-> all,
              err |-> UNION {{<<"unable to find resources for construct", dep>> :
                                 dep \in UnmappedDependencies(ws, all[n])} : n \in 1..Len(all)}]

\* executions of Run that are compared
Executions == 2

\* the orders `range kb` can yield the edges of the knowledge base in
KbOrders(kb) == Orders(kb)

\* the orders the map of expansion solutions can be ranged in
ConstructOrders == Orders(Constructs)

\* Run calls GenerateCombinations and hands the first context to SolveGraph
RunGenerateCombinations(order) ==
    /\ detPc = "combine"
    /\ detToSolve' = GenerateCombinations(WorkingState, constructExpansionSolutions, order).contexts
    /\ detCtx' = 1
    /\ detGraph' = GenerateCombinations(WorkingState, constructExpansionSolutions, order).contexts[1]
    /\ detI' = 0
    /\ detPc' = "solve"
    /\ UNCHANGED <<detKb, detExec, detErr, detSolution, detReturned, notDetVars>>

\* one iteration of the loop of SolveGraph: expandEdges is kb.ExpandEdges;
\* every edge is configured, every resource is made operational and no
\* constraint is left unsatisfied
SolveIteration(order) ==
    /\ detPc = "solve"
    /\ LoopCondition(detI)
    /\ LET expanded == ExpandEdges(detGraph, detKb, order)
           verdict == IterationVerdict(<<>>, expanded.errs, detI)
       IN  /\ detGraph' = expanded.dag
           /\ detI' = IF verdict = "next" THEN detI + 1 ELSE detI
           /\ detErr' = (verdict = "return errors")
           /\ detPc' = IF verdict = "next" THEN "solve" ELSE "solved"
    /\ UNCHANGED <<detKb, detExec, detToSolve, detCtx, detSolution, detReturned, notDetVars>>

\* the body of the loop of Run after SolveGraph has returned
RunKeepSolution ==
    /\ detPc = "solved"
    /\ detSolution' = IF detSolution = <<>> THEN <<detGraph>> ELSE detSolution
    /\ IF detCtx < Len(detToSolve)
       THEN /\ detCtx' = detCtx + 1
            /\ detGraph' = detToSolve[detCtx + 1]
            /\ detPc' = "solve"
       ELSE /\ detPc' = "return"
            /\ UNCHANGED <<detCtx, detGraph>>
    /\ detI' = 0
    /\ detErr' = FALSE
    /\ UNCHANGED <<detKb, detExec, detToSolve, detReturned, notDetVars>>

\* Run returns; the next execution starts from the same input
RunReturnSolution ==
    /\ detPc = "return"
    /\ detReturned' = Append(detReturned, [graph |-> detSolution[1], err |-> RunError])
    /\ IF detExec < Executions
       THEN /\ detExec' = detExec + 1
            /\ detPc' = "combine"
       ELSE /\ detPc' = "done"
            /\ UNCHANGED detExec
    /\ detToSolve' = <<>>
    /\ detCtx' = 0
    /\ detGraph' = [res |-> {}, deps |-> {}]
    /\ detSolution' = <<>>
    /\ UNCHANGED <<detKb, detI, detErr, notDetVars>>

InitDet ==
    /\ NotCanceled
    /\ OrchIdle
    /\ EngineIdle
    /\ GraphIdle
    /\ CallsIdle
    /\ detKb \in SUBSET KbEdgeUniverse
    /\ detExec = 1
    /\ detPc = "combine"
    /\ detToSolve = <<>>
    /\ detCtx = 0
    /\ detI = 0
    /\ detGraph = [res |-> {}, deps |-> {}]
    /\ detErr = FALSE
    /\ detSolution = <<>>
    /\ detReturned = <<>>

NextDet ==
    \/ \E order \in ConstructOrders : RunGenerateCombinations(order)
    \/ \E order \in KbOrders(detKb) : SolveIteration(order)
    \/ RunKeepSolution
    \/ RunReturnSolution

SpecDet == InitDet /\ [][NextDet]_vars

-----------------------------------------------------------------------------
(* Functions called on their own: the arguments are drawn by the initial
   state and one action applies the function.

   Path selection (expandEdge, expandPath, renameAndReplaceInTempGraph).
   A resource id is <<type, name>>; a name is the tuple of the parts that
   "%s-%s" and "%s-%d" join. *)

\* the prefix of the names of phantom vertices
PHANTOM_PREFIX == "PHANTOM_"

\* input.Dep.Source.ID and input.Dep.Target.ID
DepSource == <<"a", <<"A">> >>

DepTarget == <<"d", <<"D">> >>

\* the phantom vertices of the path-selection graph, one for a type
PhantomA == <<"a", <<PHANTOM_PREFIX, "a">> >>

PhantomB == <<"b", <<PHANTOM_PREFIX, "b">> >>

\* resources the solution may hold besides the two ends of the dependency
ExistingB == <<"b", <<"X">> >>

OtherTarget == <<"d", <<"D2">> >>

\* construct.ResourceIdLess orders the ids as this list does
IdOrder == <<DepSource, PhantomA, ExistingB, PhantomB, DepTarget, OtherTarget>>

\* the paths from source to target a path-selection graph is built of
TempPaths ==
    {<<DepSource, DepTarget>>,
     <<DepSource, PhantomB, DepTarget>>,
     <<DepSource, PhantomA, DepTarget>>,
     <<DepSource, PhantomB, PhantomA, DepTarget>>}

\* the paths a path-selection graph is built of at most
MaxTempPaths == 2

\* the edge templates a knowledge base may hold, keyed by the two types
TemplateUniverse ==
    {<<"a", "a">>, <<"a", "b">>, <<"b", "a">>, <<"b", "d">>, <<"a", "d">>}

\* the unique flags the templates may carry: the templates whose source, and
\* those whose target, has one edge of the template at most
UniqueFlags ==
    {[Source |-> {}, Target |-> {}],
     [Source |-> {<<"a", "b">>}, Target |-> {}],
     [Source |-> {<<"a", "b">>, <<"b", "d">>}, Target |-> {}],
     [Source |-> {}, Target |-> {<<"b", "d">>}]}

\* the dataflow edges a solution may hold

DataflowUniverse == {<<DepSource, ExistingB>>, <<ExistingB, OtherTarget>>}

\* the type of a resource id, and the key of the template of an edge
TypeOf(id) == id[1]

NameOf(id) == id[2]

TemplateKey(source, target) == <<TypeOf(source), TypeOf(target)>>

\* strings.HasPrefix(id.Name, PHANTOM_PREFIX)
IsPhantom(id) == NameOf(id)[1] = PHANTOM_PREFIX

\* the edges of a path of resource ids
EdgesOfPath(path) == {<<path[n], path[n + 1]>> : n \in 1..(Len(path) - 1)}

\* ctx.KnowledgeBase().GetEdgeTemplate(source, target) == nil
TemplateMissing_Never(kb, source, target) == FALSE

TemplateMissing(kb, source, target) == TemplateKey(source, target) \notin kb

\* tmpl.Unique.CanAdd(edges, source, target): an edge that exists can always
\* be added; otherwise a unique source has no other edge of the template,
\* and a unique target has none either
CanAdd(unique, edges, source, target) ==
    \/ <<source, target>> \in edges
    \/ /\ TemplateKey(source, target) \in unique.Source
          => ~\E e \in edges : e[1] = source /\ TypeOf(e[2]) = TypeOf(target)
       /\ TemplateKey(source, target) \in unique.Target
          => ~\E e \in edges : e[2] = target /\ TypeOf(e[1]) = TypeOf(source)

\* graph.CreatesCycle(g, source, target): target reaches source
RECURSIVE ReachableFrom(_, _)
ReachableFrom(edges, seen) ==
    LET more == seen \cup {e[2] : e \in {f \in edges : f[1] \in seen}}
    IN  IF more = seen THEN seen ELSE ReachableFrom(edges, more)

CreatesCycle_SelfLoopOnly(gr, source, target) == source = target

CreatesCycle(gr, source, target) ==
    source = target \/ source \in ReachableFrom(gr.edges, {target})

\* AddEdge(source, target) of a graph that prevents cycles: input.TempGraph
\* and the graph of graph.NewAcyclicGraph()
TempAddEdge(gr, source, target) ==
    IF source \notin gr.verts \/ target \notin gr.verts
    THEN [g |-> gr, err |-> "ErrVertexNotFound"]
    ELSE IF <<source, target>> \in gr.edges
    THEN [g |-> gr, err |-> "ErrEdgeAlreadyExists"]
    ELSE IF CreatesCycle(gr, source, target)
    THEN [g |-> gr, err |-> "ErrEdgeCreatesCycle"]
    ELSE [g |-> [gr EXCEPT !.edges = @ \cup {<<source, target>>}], err |-> "nil"]

\* matchesNonBoundary(id, nonBoundaryResources): the first index of the type, 0 for none
matchesNonBoundary(id, nonBoundaryResources) ==
    LET matching == {n \in 1..Len(nonBoundaryResources) :
                        TypeOf(nonBoundaryResources[n]) = TypeOf(id)}
    IN  IF matching = {} THEN 0
        ELSE CHOOSE n \in matching : \A m \in matching : n <= m

\* the members of a set in the order a map of them is ranged in
InOrder(S, order) == SelectSeq(order, LAMBDA x : x \in S)

\* the candidates of expandPath: the node of the path and, by addCandidates,
\* every resource of the result graph and of the raw view that matches it
CandidatesOf(in, nonBoundaryResources) ==
    [n \in 1..Len(nonBoundaryResources) |->
        {nonBoundaryResources[n]}
        \cup {id \in in.result \cup in.res : matchesNonBoundary(id, nonBoundaryResources) = n}]

\* the calls of addEdge in the order the loops of expandPath make them
RECURSIVE Concat(_)
Concat(seqs) == IF seqs = <<>> THEN <<>> ELSE Head(seqs) \o Concat(Tail(seqs))

EdgeAttempts(candidates, order) ==
    LET layer(n) == InOrder(candidates[n], order)
        into(n) ==
            Concat([k \in 1..Len(layer(n)) |->
                IF n = 1 THEN <<(<<DepSource, layer(n)[k]>>)>>
                ELSE [j \in 1..Len(layer(n - 1)) |-> <<layer(n - 1)[j], layer(n)[k]>>]])
        last == Len(candidates)
    IN  Concat([n \in 1..last |-> into(n)])
        \o (IF last > 0
            THEN [k \in 1..Len(layer(last)) |-> <<layer(last)[k], DepTarget>>]
            ELSE <<>>)

\* addEdge returns without adding: !tmpl.Unique.CanAdd(edges, source.id, target.id),
\* edges being the dataflow edges of the solution when expandPath began
UniqueRefuses(in, source, target) == ~CanAdd(in.unique, in.dataflow, source, target)

\* the error addEdge joins when the knowledge base has no template
NoTemplateError(source, target) == <<"could not find edge template", source, target>>

\* addEdge(source, target) of expandPath, on the graph and the errors so far
addEdge(in, st, source, target) ==
    IF TemplateMissing(in.kb, source, target)
    THEN [st EXCEPT !.errs = @ \cup {NoTemplateError(source, target)}]
    ELSE IF UniqueRefuses(in, source, target)
    THEN st
    ELSE LET added == TempAddEdge(st.temp, source, target)
         IN  [temp |-> added.g,
              errs |-> IF added.err \in {"nil", "ErrEdgeAlreadyExists", "ErrEdgeCreatesCycle"}
                       THEN st.errs ELSE st.errs \cup {<<added.err, source, target>>}]

\* expandPath(ctx, input, path, resultGraph): the path-selection graph it
\* leaves and the errors it returns
expandPath(in, temp, path) ==
    IF Len(path) = 2 THEN [temp |-> temp, errs |-> {}]
    ELSE LET nonBoundaryResources == SubSeq(path, 2, Len(path) - 1)
             missing == {<<"ErrVertexNotFound", nonBoundaryResources[n]>> :
                            n \in {m \in 1..Len(nonBoundaryResources) :
                                      nonBoundaryResources[m] \notin temp.verts}}
             candidates == CandidatesOf(in, nonBoundaryResources)
             withCandidates == [temp EXCEPT !.verts = @ \cup UNION {candidates[n] :
                                                            n \in 1..Len(candidates)}]
             attempts == EdgeAttempts(candidates, in.order)
             step[n \in 0..Len(attempts)] ==
                 IF n = 0 THEN [temp |-> withCandidates, errs |-> {}]
                 ELSE addEdge(in, step[n - 1], attempts[n][1], attempts[n][2])
         IN  IF missing # {} THEN [temp |-> temp, errs |-> missing]
             ELSE step[Len(attempts)]

\* graph.AllPathsBetween(g, start, end): the simple paths
RECURSIVE PathsFrom(_, _, _)
PathsFrom(edges, walked, end) ==
    LET at == walked[Len(walked)]
    IN  IF at = end THEN {walked}
        ELSE UNION {PathsFrom(edges, Append(walked, e[2]), end) :
                       e \in {f \in edges : f[1] = at /\ f[2] \notin Range(walked)}}

AllPathsBetween(gr, start, end) == PathsFrom(gr.edges, <<start>>, end)

\* the position of an id in the order of construct.ResourceIdLess
IdRank(id) == CHOOSE n \in 1..Len(IdOrder) : IdOrder[n] = id

\* the comparison expandEdge sorts the paths by: length, then the first id that differs
PathLess(p, q) ==
    \/ Len(p) < Len(q)
    \/ /\ Len(p) = Len(q)
       /\ \E k \in 1..Len(p) : /\ \A j \in 1..(k - 1) : p[j] = q[j]
                               /\ p[k] # q[k]
                               /\ IdRank(p[k]) < IdRank(q[k])

SortedPaths(paths) ==
    CHOOSE s \in Orders(paths) : \A m, n \in 1..Len(s) : m < n => PathLess(s[m], s[n])

\* the loop of expandEdge that expands every path between the two ends
expandPaths(in) ==
    LET paths == SortedPaths(AllPathsBetween(in.temp, DepSource, DepTarget))
        step[n \in 0..Len(paths)] ==
            IF n = 0 THEN [temp |-> in.temp, errs |-> {}]
            ELSE LET expanded == expandPath(in, step[n - 1].temp, paths[n])
                 IN  [temp |-> expanded.temp, errs |-> step[n - 1].errs \cup expanded.errs]
    IN  step[Len(paths)]

\* the suffixes the loop of renameAndReplaceInTempGraph runs through
SuffixLimit == 1000

\* the name renameAndReplaceInTempGraph gives a phantom of a type: the loop
\* looks an id up in the raw view, stops when it is not found and takes the
\* name with the next suffix when it is; the id it holds when the suffixes
\* run out is not looked up
RenamedId(type, taken) ==
    LET name == NameOf(DepSource) \o NameOf(DepTarget)
        free == {suffix \in 0..(SuffixLimit - 2) : <<type, Append(name, suffix)>> \notin taken}
    IN  IF <<type, name>> \notin taken THEN <<type, name>>
        ELSE IF free = {} THEN <<type, Append(name, SuffixLimit - 1)>>
        ELSE <<type, Append(name, CHOOSE s \in free : \A t \in free : s <= t)>>

\* renameAndReplaceInTempGraph(ctx, input, g, path): the ids of the result
renameAndReplaceInTempGraph(taken, path) ==
    [n \in 1..Len(path) |-> IF IsPhantom(path[n]) THEN RenamedId(TypeOf(path[n]), taken)
                            ELSE path[n]]

\* the two orders a map is ranged in by the calls
RangeOrders(order) == {order, [n \in 1..Len(order) |-> order[Len(order) + 1 - n]]}

\* the arguments of expandEdge: the templates and their unique flags, the raw
\* view and the dataflow edges of the solution, the result graph, the
\* path-selection graph and the order maps are ranged in
ExpansionInputs ==
    {in \in [kb       : SUBSET TemplateUniverse,
             unique   : UniqueFlags,
             res      : {{DepSource, DepTarget} \cup S : S \in SUBSET {ExistingB, OtherTarget}},
             result   : SUBSET {ExistingB},
             dataflow : SUBSET DataflowUniverse,
             temp     : {[verts |-> {DepSource, DepTarget, PhantomA, PhantomB},
                          edges |-> UNION {EdgesOfPath(p) : p \in P}] :
                            P \in {Q \in SUBSET TempPaths : Cardinality(Q) \in 1..MaxTempPaths}},
             order    : RangeOrders(IdOrder)] :
        /\ in.result \cap in.res = {}
        /\ \A e \in in.dataflow : e[1] \in in.res /\ e[2] \in in.res}

\* expandEdge(ctx, input, g): every path is expanded, then one of the paths
\* between the two ends is selected by its weight and its phantoms are renamed
CallExpandEdge ==
    /\ callName = "expandEdge"
    /\ callOut = NotReturned
    /\ LET expanded == expandPaths(callIn)
       IN  IF expanded.errs # {}
           THEN callOut' = [returned |-> TRUE, temp |-> expanded.temp, errs |-> expanded.errs,
                            path |-> <<>>, result |-> <<>>]
           ELSE \E path \in AllPathsBetween(expanded.temp, DepSource, DepTarget) :
                    callOut' = [returned |-> TRUE, temp |-> expanded.temp, errs |-> {},
                                path |-> path,
                                result |-> renameAndReplaceInTempGraph(callIn.res, path)]
    /\ UNCHANGED <<callName, callIn, notCallVars>>

\* the edges of the knowledge bases FindPaths is called with, in a fixed order
FindPathsEdges ==
    <<(<<"a", "a">>), <<"a", "b">>, <<"b", "d">>, <<"a", "c">>, <<"c", "d">>, <<"a", "d">>, <<"d", "b">>,
      <<"d", "a">>, <<"c", "b">>>>

\* a knowledge base with a path of seven edges from a to d: the chain and
\* the edges that leave its last type, in a fixed order
LongChain == <<(<<"a", "b">>), <<"b", "c">>, <<"c", "t1">>, <<"t1", "t2">>, <<"t2", "t3">>>>

LongChainExits == <<(<<"t3", "t4">>), <<"t4", "d">>, <<"t3", "d">>>>

\* the arguments of FindPaths
FindPathsInputs ==
    {[kb |-> kb, order |-> order, source |-> source, dest |-> dest] :
        <<kb, order>> \in UNION {{kb} \X RangeOrders(InOrder(kb, FindPathsEdges)) :
                                    kb \in SUBSET Range(FindPathsEdges)},
        source \in Resources, dest \in Resources}
    \cup {[kb |-> Range(LongChain) \cup exits, order |-> order, source |-> "a", dest |-> "d"] :
            <<exits, order>> \in UNION {{exits} \X RangeOrders(LongChain \o InOrder(exits, LongChainExits)) :
                                          exits \in SUBSET Range(LongChainExits)}}

\* kb.FindPaths(source, dest) called on its own
CallFindPaths ==
    /\ callName = "FindPaths"
    /\ callOut = NotReturned
    /\ callOut' = [returned |-> TRUE,
                   paths |-> FindPaths(callIn.kb, callIn.order, callIn.source, callIn.dest)]
    /\ UNCHANGED <<callName, callIn, notCallVars>>

\* the arguments of ExpandEdges: a graph holding the dependency a -> d and its
\* edge data, and a knowledge base
ConstrainedDependency == <<"a", "d">>

ExpandEdgesInputs ==
    {[kb |-> kb, order |-> order,
      dag |-> [res |-> {"a", "d"}, deps |-> {ConstrainedDependency},
               data |-> [dep \in {ConstrainedDependency} |->
                            [NodeMustExist |-> mustExist, NodeMustNotExist |-> mustNotExist]]]] :
        <<kb, order>> \in UNION {{kb} \X RangeOrders(InOrder(kb, FindPathsEdges)) :
                                    kb \in SUBSET KbEdgeUniverse},
        mustExist \in SUBSET {"b", "c"}, mustNotExist \in SUBSET {"b", "c"}}

\* kb.ExpandEdges(dag, appName) called on its own; the path selected for the
\* dependency is kept beside the result
CallExpandEdges ==
    /\ callName = "ExpandEdges"
    /\ callOut = NotReturned
    /\ LET expanded == ExpandEdges(callIn.dag, callIn.kb, callIn.order)
       IN  callOut' = [returned |-> TRUE, dag |-> expanded.dag, errs |-> expanded.errs,
                       selected |-> SelectedPath(callIn.dag, callIn.kb, callIn.order,
                                                 ConstrainedDependency).path]
    /\ UNCHANGED <<callName, callIn, notCallVars>>

\* the solutions a construct has at most
MaxSolutions == 2

\* the k-th expansion solution of a construct: a directly mapped resource
\* that depends on a second resource
SolutionOf(c, k) ==
    LET mapped == c \o ToString(k)
    IN  [Graph |-> [res |-> {mapped, mapped \o "_role"}, deps |-> {<<mapped, mapped \o "_role">>}],
         DirectlyMappedResources |-> <<mapped>>]

\* EdgeData a dependency of the working state may carry
SomeEdgeData ==
    [NodeMustExist |-> {"b"}, NodeMustNotExist |-> {"c"}, EnvironmentVariables |-> {"ENV"}]

\* the dependencies a working state may hold, between the abstract constructs
\* x and y and the resources a and d
WorkingDependencies == {<<"x", "y">>, <<"x", "d">>, <<"a", "y">>, <<"a", "d">>}

\* the working states and expansion solutions GenerateCombinations and Run
\* are called with: a construct has an entry of 1..MaxSolutions solutions or none
WorkingInputs ==
    {[ws |-> [abstract  |-> c.abstract,
              resources |-> c.resources,
              deps      |-> c.deps,
              data      |-> [dep \in c.deps |-> IF dep \in c.withData THEN SomeEdgeData
                                                ELSE NoEdgeData]],
      solutions |-> [x \in {y \in c.abstract : c.count[y] > 0} |->
                        [k \in 1..c.count[x] |-> SolutionOf(x, k)]],
      order |-> order] :
        <<c, order>> \in UNION {{d} \X Orders({y \in d.abstract : d.count[y] > 0}) :
            d \in {e \in [abstract  : SUBSET Constructs,
                           resources : SUBSET {"a", "d"},
                           deps      : SUBSET WorkingDependencies,
                           withData  : SUBSET WorkingDependencies,
                           count     : [Constructs -> 0..MaxSolutions]] :
                      /\ e.withData \subseteq e.deps
                      /\ \A dep \in e.deps : {dep[1], dep[2]} \subseteq e.abstract \cup e.resources
                      /\ \A y \in Constructs \ e.abstract : e.count[y] = 0}}}

\* e.GenerateCombinations() called on its own
CallGenerateCombinations ==
    /\ callName = "GenerateCombinations"
    /\ callOut = NotReturned
    /\ LET combined == GenerateCombinations(callIn.ws, callIn.solutions, callIn.order)
       IN  callOut' = [returned |-> TRUE, contexts |-> combined.contexts,
                       mappings |-> combined.mappings, err |-> combined.err]
    /\ UNCHANGED <<callName, callIn, notCallVars>>

\* SolveGraph on a context: expandEdges is kb.ExpandEdges, repeated while it
\* fails, NUM_LOOPS times at most; the graph it returns
SolvedGraph(context, kb, order) ==
    LET step[n \in 0..NUM_LOOPS] ==
            IF n = 0 THEN [dag |-> context, done |-> FALSE]
            ELSE IF step[n - 1].done THEN step[n - 1]
            ELSE LET expanded == ExpandEdges(step[n - 1].dag, kb, order)
                 IN  [dag |-> expanded.dag, done |-> expanded.errs = <<>>]
    IN  step[NUM_LOOPS].dag

\* Engine.Run() without constraints, called on its own: the graph of the
\* first context is solved and returned unless GenerateCombinations failed
CallRun ==
    /\ callName = "Run"
    /\ callOut = NotReturned
    /\ LET combined == GenerateCombinations(callIn.ws, callIn.solutions, callIn.order)
       IN  callOut' = IF combined.err # {} \/ Len(combined.contexts) = 0
                      THEN [returned |-> TRUE, solved |-> FALSE, err |-> combined.err]
                      ELSE [returned |-> TRUE, solved |-> TRUE, err |-> {},
                            graph |-> SolvedGraph(combined.contexts[1], callIn.kb, callIn.kbOrder)]
    /\ UNCHANGED <<callName, callIn, notCallVars>>

\* the knowledge base Run is called with
RunKb == {<<"a", "b">>, <<"b", "d">>, <<"a", "d">>}

\* graph.AddDependencyWithData(source, target, data): the dependency is in
\* the graph afterwards and carries the data
AddDependencyWithData(gr, source, target, data) ==
    [gr EXCEPT !.deps = @ \cup {<<source, target>>},
               !.data = [e \in (DOMAIN @) \cup {<<source, target>>} |->
                            IF e = <<source, target>> THEN data ELSE @[e]]]

\* the EdgeData a MustContain or MustNotContain constraint leaves on a
\* dependency: the resource appended to the list of the data the dependency
\* had, which is a list of the resource alone when it had none
ConstrainedData(before, constraint) ==
    IF constraint.Operator = "must_contain"
    THEN [before EXCEPT !.NodeMustExist = @ \cup {constraint.Node}]
    ELSE [before EXCEPT !.NodeMustNotExist = @ \cup {constraint.Node}]

\* e.handleEdgeConstainConstraint(constraint) on the working state
handleEdgeConstainConstraint(ws, constraint) ==
    LET dep == constraint.Target
        before == IF dep \in ws.deps /\ dep \in DOMAIN ws.data THEN ws.data[dep] ELSE NoEdgeData
    IN  [g   |-> AddDependencyWithData(ws, dep[1], dep[2], ConstrainedData(before, constraint)),
         err |-> "nil"]

\* the handler of the engine that applies edge constraints to the end state:
\* the resources of the two ends are collected, those of an abstract
\* construct from constructToResourceMapping, and the data is added between
\* every pair; the dependency is looked up by the ids of the constraint
handleEdgeConstainConstraintEndState(es, mapping, constraint) ==
    LET source == constraint.Target[1]
        target == constraint.Target[2]
        abstract(id) == id \in Constructs
        srcNodes == IF abstract(source) THEN mapping[source] ELSE {source}
        dstNodes == IF abstract(target) THEN mapping[target] ELSE {}
        found == constraint.Target \in es.deps
        uncast == found /\ constraint.Target \notin DOMAIN es.data
        data == ConstrainedData(IF found /\ ~uncast THEN es.data[constraint.Target]
                                ELSE NoEdgeData, constraint)
        pairs == srcNodes \X dstNodes
        add[S \in SUBSET pairs] ==
            IF S = {} THEN es
            ELSE LET e == CHOOSE x \in S : TRUE
                 IN  AddDependencyWithData(add[S \ {e}], e[1], e[2], data)
    IN  IF \E id \in {source, target} : abstract(id) /\ id \notin DOMAIN mapping
        THEN [g |-> es, err |-> "unable to find resources for construct"]
        ELSE IF \E id \in {source, target} : ~abstract(id) /\ id \notin es.res
        THEN [g |-> es, err |-> "unable to find resource"]
        ELSE IF pairs # {} /\ uncast
        THEN [g |-> es, err |-> "unable to cast edge data"]
        ELSE [g |-> add[pairs], err |-> "nil"]

\* constructToResourceMapping of the end state
EndStateMapping == [c \in Constructs |-> {c \o "1"}]

\* the edge constraints of a run, applied one after the other; the errors
\* are kept by the index of the constraint; onEndState tells the engine that
\* applies them to the end state from the one that applies them to the
\* working state
ApplyEdgeConstraints(gr, constraints, onEndState) ==
    LET handle(g, c) == IF onEndState
                        THEN handleEdgeConstainConstraintEndState(g, EndStateMapping, c)
                        ELSE handleEdgeConstainConstraint(g, c)
        step[n \in 0..Len(constraints)] ==
            IF n = 0 THEN [g |-> gr, failed |-> {}]
            ELSE LET handled == handle(step[n - 1].g, constraints[n])
                 IN  [g |-> handled.g,
                      failed |-> step[n - 1].failed \cup (IF handled.err = "nil" THEN {} ELSE {n})]
    IN  step[Len(constraints)]

\* the edge constraints a run has at most
MaxEdgeConstraints == 2

\* the MustContain and MustNotContain constraints, on dependencies between
\* the constructs x and y and the resources a and d
EdgeConstraints ==
    [Operator : {"must_contain", "must_not_contain"},
     Target   : WorkingDependencies,
     Node     : {"b", "c"}]

\* the arguments of the calls that apply edge constraints: the constraints
\* and a graph holding some of the dependencies, without data; the end state
\* holds the mapped resources in place of the constructs
EdgeConstraintInputs(name) ==
    {[constraints |-> constraints,
      g |-> [res  |-> IF name = "ApplyEdgeConstraint" THEN Constructs \cup {"a", "d"}
                      ELSE {"x1", "y1", "a", "d"},
             deps |-> IF name = "ApplyEdgeConstraint" THEN deps
                      ELSE UNION {(IF e[1] \in Constructs THEN EndStateMapping[e[1]] ELSE {e[1]})
                                  \X (IF e[2] \in Constructs THEN EndStateMapping[e[2]] ELSE {e[2]}) :
                                     e \in deps},
             data |-> [e \in {} |-> NoEdgeData]]] :
        constraints \in UNION {[1..n -> EdgeConstraints] : n \in 1..MaxEdgeConstraints},
        deps \in SUBSET WorkingDependencies}

\* Run applies the edge constraints to the working state
CallApplyEdgeConstraint ==
    /\ callName = "ApplyEdgeConstraint"
    /\ callOut = NotReturned
    /\ LET applied == ApplyEdgeConstraints(callIn.g, callIn.constraints, FALSE)
       IN  callOut' = [returned |-> TRUE, g |-> applied.g, failed |-> applied.failed]
    /\ UNCHANGED <<callName, callIn, notCallVars>>

\* the engine that expands the constructs first applies them to the end state
CallApplyEdgeConstraintEndState ==
    /\ callName = "ApplyEdgeConstraintEndState"
    /\ callOut = NotReturned
    /\ LET applied == ApplyEdgeConstraints(callIn.g, callIn.constraints, TRUE)
       IN  callOut' = [returned |-> TRUE, g |-> applied.g, failed |-> applied.failed]
    /\ UNCHANGED <<callName, callIn, notCallVars>>

\* the most ids of one type the raw view holds under the name of the dependency
MaxCollisions == 1001

\* count ids of a type in the raw view that carry the name of the dependency:
\* the plain name and the suffixes from 0 on, without the suffix of gap
Colliding(type, count, gap) ==
    LET name == NameOf(DepSource) \o NameOf(DepTarget)
    IN  {<<type, name>> : n \in 1..(IF count > 0 THEN 1 ELSE 0)}
        \cup {<<type, Append(name, suffix)>> : suffix \in (0..(count - 2)) \ {gap}}

\* the arguments of renameAndReplaceInTempGraph: the selected path and the
\* vertices of the raw view
RenameInputs ==
    {[path |-> path, res |-> {DepSource, DepTarget} \cup Colliding("a", counts[1], gap)
                                                   \cup Colliding("b", counts[2], gap)] :
        path \in TempPaths,
        counts \in ((0..3) \cup ((SuffixLimit - 1)..MaxCollisions))
                  \X ((0..3) \cup ((SuffixLimit - 1)..MaxCollisions)),
        gap \in {-1, 0}}

CallRenameAndReplaceInTempGraph ==
    /\ callName = "renameAndReplaceInTempGraph"
    /\ callOut = NotReturned
    /\ callOut' = [returned |-> TRUE,
                   result |-> renameAndReplaceInTempGraph(callIn.res, callIn.path)]
    /\ UNCHANGED <<callName, callIn, notCallVars>>

\* no vertex of the graph reaches itself
Acyclic(edges) == \A e \in edges : e[1] \notin ReachableFrom(edges, {e[2]})

\* the ids of the constructs of a construct graph
ConstructIds == {"x", "y", "z"}

\* the kinds of constructs: AWS.ExpandConstructs turns an execution unit
\* into a lambda function and leaves every other kind alone
ConstructKinds == {"ExecutionUnit", "Orm"}

\* result.TopologicalSort(): an error for a graph with a cycle, else the ids
\* with the source of every dependency before its target, in any such order
TopologicalSort(edges) ==
    IF ~Acyclic(edges) THEN {[err |-> "cycle", ids |-> <<>>]}
    ELSE {[err |-> "nil", ids |-> ids] :
            ids \in {o \in Orders(ConstructIds) :
                       \A e \in edges : \A n, m \in 1..Len(o) :
                          o[n] = e[1] /\ o[m] = e[2] => n < m}}

reverseInPlace_Unchanged(a) == a

\* reverseInPlace(a): the index runs from len(a)/2 - 1 down to 0 and the
\* element at it is swapped with the one at len(a) - 1 - index
reverseInPlace(a) ==
    LET half == Len(a) \div 2
        swap(s, lo) == [s EXCEPT ![lo + 1] = s[Len(a) - lo], ![Len(a) - lo] = s[lo + 1]]
        step[k \in 0..half] == IF k = 0 THEN a ELSE swap(step[k - 1], half - k)
    IN  step[half]

\* AWS.ExpandConstructs(result, dag): the constructs in the order the loop
\* reaches them and the lambda functions created
AWS_ExpandConstructs(in) ==
    IF in.sorted.err # "nil" THEN [err |-> in.sorted.err, visited |-> <<>>, dag |-> {}]
    ELSE LET constructIds == reverseInPlace(in.sorted.ids)
         IN  [err |-> "nil", visited |-> constructIds,
              dag |-> {<<"lambda_function", id>> :
                          id \in {c \in Range(constructIds) : in.kind[c] = "ExecutionUnit"}}]

\* Engine.ExpandConstructs(): the constructs in the order the loop over
\* WorkingState.ListConstructs() expands them, without those expanded before
Engine_ExpandConstructs(in) ==
    [err |-> "nil",
     visited |-> SelectSeq(in.listed, LAMBDA c : c \notin in.ExpandendOrCopiedBaseConstructs)]

\* the arguments of the two: the dependencies of the constructs with what
\* TopologicalSort returns for them, and the working state with the order
\* ListConstructs lists it in
ExpandConstructsInputs(name) ==
    LET graphs == SUBSET {e \in ConstructIds \X ConstructIds : e[1] # e[2]}
    IN  IF name = "AWS.ExpandConstructs"
        THEN UNION {[edges : {edges}, sorted : TopologicalSort(edges),
                     kind : [ConstructIds -> ConstructKinds]] : edges \in graphs}
        ELSE [edges : {edges \in graphs : Acyclic(edges)}, listed : Orders(ConstructIds),
              ExpandendOrCopiedBaseConstructs : SUBSET ConstructIds]

CallAWSExpandConstructs ==
    /\ callName = "AWS.ExpandConstructs"
    /\ callOut = NotReturned
    /\ LET out == AWS_ExpandConstructs(callIn)
       IN  callOut' = [returned |-> TRUE, err |-> out.err, visited |-> out.visited,
                       dag |-> out.dag]
    /\ UNCHANGED <<callName, callIn, notCallVars>>

CallEngineExpandConstructs ==
    /\ callName = "Engine.ExpandConstructs"
    /\ callOut = NotReturned
    /\ LET out == Engine_ExpandConstructs(callIn)
       IN  callOut' = [returned |-> TRUE, err |-> out.err, visited |-> out.visited]
    /\ UNCHANGED <<callName, callIn, notCallVars>>

\* the id of a resource of a type with a name
ResourceIdOf(type, name) == type \o ":" \o name

\* fmt.Sprintf("%s-%s", appName, name)
DashJoined(appName, name) == appName \o "-" \o name

\* LambdaPermission.Create(dag, params); the graph maps the ids of its
\* resources to their construct references, and receiverInGraph tells that
\* the method is called on the resource the graph holds
LambdaPermissionCreate(dag, params, receiverInGraph) ==
    LET name == IF params.AppName = "" THEN params.Name
                ELSE DashJoined(params.AppName, params.Name)
        id == ResourceIdOf("lambda_permission", name)
        held == IF receiverInGraph /\ id \in DOMAIN dag
                THEN [dag EXCEPT ![id] = params.Refs] ELSE dag
    IN  IF id \in DOMAIN held
        THEN [err |-> "nil", id |-> id, dag |-> [held EXCEPT ![id] = @ \cup params.Refs]]
        ELSE [err |-> "nil", id |-> id,
              dag |-> [r \in DOMAIN held \cup {id} |-> IF r = id THEN params.Refs ELSE held[r]]]

\* IamRole.Create(dag, params)
IamRoleCreate(dag, params, receiverInGraph) ==
    LET id == ResourceIdOf("iam_role", DashJoined(params.AppName, params.Name))
        held == IF receiverInGraph /\ id \in DOMAIN dag
                THEN [dag EXCEPT ![id] = params.Refs] ELSE dag
    IN  IF id \in DOMAIN held
        THEN [err |-> "already exists", id |-> id, dag |-> held]
        ELSE [err |-> "nil", id |-> id,
              dag |-> [r \in DOMAIN held \cup {id} |-> IF r = id THEN params.Refs ELSE held[r]]]

\* OpenIdConnectProvider.Create(dag, params), with params.Name for the
\* ClusterName; CreateDependencies adds the provider and the cluster it
\* depends on
OpenIdConnectProviderCreate(dag, params, receiverInGraph) ==
    LET id == ResourceIdOf("iam_oidc_provider", DashJoined(params.AppName, params.Name))
        cluster == ResourceIdOf("eks_cluster", DashJoined(params.AppName, params.Name))
    IN  IF id \in DOMAIN dag
        THEN [err |-> "nil", id |-> id, dag |-> [dag EXCEPT ![id] = @ \cup params.Refs]]
        ELSE [err |-> "nil", id |-> id,
              dag |-> [r \in DOMAIN dag \cup {id, cluster} |->
                          IF r \in {id, cluster} /\ r \notin DOMAIN dag THEN params.Refs
                          ELSE IF r = cluster THEN dag[r] \cup params.Refs ELSE dag[r]]]

\* the resource types whose Create is called and the constructs they refer to
CreatedTypes == {"lambda_permission", "iam_role", "iam_oidc_provider"}

ConstructRefs == {"unit1", "unit2"}

\* the arguments of a Create: the graph holds a resource of every type of a
\* subset, under the name the call will give it, and a resource that is not
\* touched
CreateInputs ==
    {[type |-> type, params |-> [AppName |-> appName, Name |-> "x", Refs |-> refs],
      receiverInGraph |-> receiverInGraph,
      dag |-> [r \in {ResourceIdOf(type, IF appName = "" /\ type = "lambda_permission"
                                         THEN "x" ELSE DashJoined(appName, "x")) : n \in 1..existing}
                     \cup {"s3_bucket:other"} |-> held]] :
        type \in CreatedTypes, appName \in {"", "app"}, refs \in SUBSET ConstructRefs,
        receiverInGraph \in BOOLEAN, existing \in 0..1, held \in SUBSET ConstructRefs}

CallCreate ==
    /\ callName = "Create"
    /\ callOut = NotReturned
    /\ LET out == CASE callIn.type = "lambda_permission"
                         -> LambdaPermissionCreate(callIn.dag, callIn.params, callIn.receiverInGraph)
                     [] callIn.type = "iam_role"
                         -> IamRoleCreate(callIn.dag, callIn.params, callIn.receiverInGraph)
                     [] OTHER
                         -> OpenIdConnectProviderCreate(callIn.dag, callIn.params,
                                                        callIn.receiverInGraph)
       IN  callOut' = [returned |-> TRUE, err |-> out.err, id |-> out.id, dag |-> out.dag]
    /\ UNCHANGED <<callName, callIn, notCallVars>>

\* the constructs of the orchestrator, in the order they are handed over
UrnOrder == <<"u", "v", "w">>

\* StateManager.TransitionConstructState(construct, status): the construct is
\* stored with the status, or an error is returned and the state is left alone
TransitionConstructState(state, id, status, fails) ==
    IF fails THEN [err |-> "transition", state |-> state]
    ELSE [err |-> "nil",
          state |-> [k \in DOMAIN state \cup {id} |-> IF k = id THEN status ELSE state[k]]]

\* "Find deleted constructs": the constructs of the state that the incoming
\* environment does not hold
DeletedConstructs_None(state, ir) == {}

DeletedConstructs(state, ir) == {k \in DOMAIN state : k \notin ir}

\* Orchestrator.resolveInitialState(ir): the stored state maps the constructs
\* to their status, ir holds the constructs of the incoming environment,
\* order is the order the maps are ranged in, mismatch a difference of the
\* default region or the schema version, failing the constructs whose
\* transition fails
resolveInitialState(state, ir, order, mismatch, failing) ==
    LET steps == [n \in 1..Len(InOrder(ir, order)) |->
                     LET c == InOrder(ir, order)[n]
                     IN  IF c \notin DOMAIN state
                         THEN [urn |-> c, action |-> "create", status |-> "create_pending"]
                         ELSE [urn |-> c, action |-> "update", status |-> "update_pending"]]
                 \o [n \in 1..Len(InOrder(DeletedConstructs(state, ir), order)) |->
                       [urn |-> InOrder(DeletedConstructs(state, ir), order)[n],
                        action |-> "delete", status |-> "delete_pending"]]
        run[n \in 0..Len(steps)] ==
            IF n = 0 THEN [err |-> "nil", actions |-> [k \in {} |-> ""], state |-> state]
            ELSE IF run[n - 1].err # "nil" THEN run[n - 1]
            ELSE LET moved == TransitionConstructState(run[n - 1].state, steps[n].urn,
                                                       steps[n].status, steps[n].urn \in failing)
                     actions == [k \in DOMAIN run[n - 1].actions \cup {steps[n].urn} |->
                                    IF k = steps[n].urn THEN steps[n].action
                                    ELSE run[n - 1].actions[k]]
                 IN  [err |-> moved.err, actions |-> actions, state |-> moved.state]
        done == run[Len(steps)]
    IN  IF mismatch # "none" THEN [err |-> mismatch, actions |-> [k \in {} |-> ""], state |-> state]
        ELSE IF done.err # "nil" THEN [done EXCEPT !.actions = [k \in {} |-> ""]]
        ELSE done

\* the status a stored construct may have
StoredStatus == {"create_complete", "update_failed"}

\* the arguments of resolveInitialState
ResolveInputs ==
    {[state |-> state, ir |-> ir, order |-> order, mismatch |-> mismatch, failing |-> failing] :
        state \in UNION {[stored -> StoredStatus] : stored \in SUBSET Range(UrnOrder)},
        ir \in SUBSET Range(UrnOrder),
        order \in RangeOrders(UrnOrder),
        mismatch \in {"none", "default region mismatch", "state schema version mismatch"},
        failing \in {{}} \cup {{c} : c \in Range(UrnOrder)}}

CallResolveInitialState ==
    /\ callName = "resolveInitialState"
    /\ callOut = NotReturned
    /\ LET out == resolveInitialState(callIn.state, callIn.ir, callIn.order, callIn.mismatch,
                                      callIn.failing)
       IN  callOut' = [returned |-> TRUE, err |-> out.err, actions |-> out.actions,
                       state |-> out.state]
    /\ UNCHANGED <<callName, callIn, notCallVars>>

\* the edges sortConstructsByDependency adds, in the order it adds them: for
\* every construct its DependsOn and then its Bindings, reversed when the
\* construct is to be deleted
DependencyEdges_NeverReversed(constructs, actions) ==
    LET of(c) == [n \in 1..Len(c.DependsOn) |-> <<c.URN, c.DependsOn[n]>>]
                 \o [n \in 1..Len(c.Bindings) |-> <<c.URN, c.Bindings[n]>>]
    IN  Concat([n \in 1..Len(constructs) |-> of(constructs[n])])

DependencyEdges(constructs, actions) ==
    LET edge(c, other) == IF actions[c.URN] = "delete" THEN <<other, c.URN>> ELSE <<c.URN, other>>
        of(c) == [n \in 1..Len(c.DependsOn) |-> edge(c, c.DependsOn[n])]
                 \o [n \in 1..Len(c.Bindings) |-> edge(c, c.Bindings[n])]
    IN  Concat([n \in 1..Len(constructs) |-> of(constructs[n])])

\* the group of a vertex: one after the last group of the vertices its edges
\* lead to, the first group for a vertex without outgoing edges
RECURSIVE DeploymentGroup(_, _)
DeploymentGroup(g, v) ==
    LET targets == {e[2] : e \in {f \in g.edges : f[1] = v}}
        after == {DeploymentGroup(g, t) : t \in targets}
    IN  IF targets = {} THEN 1 ELSE 1 + CHOOSE n \in after : \A m \in after : m <= n

\* graph.ResolveDeploymentGroups(g): the vertices of the acyclic graph in
\* sequential groups that can be deployed in parallel, what a vertex points
\* to being deployed before it
ResolveDeploymentGroups(g) ==
    LET last == IF g.verts = {} THEN 0
                ELSE CHOOSE n \in {DeploymentGroup(g, v) : v \in g.verts} :
                        \A w \in g.verts : DeploymentGroup(g, w) <= n
    IN  [n \in 1..last |-> {v \in g.verts : DeploymentGroup(g, v) = n}]

\* sortConstructsByDependency(constructs, actions): the graph it built, the
\* error of the first AddEdge that failed, and the deployment groups of the
\* graph, which it returns when no AddEdge failed
sortConstructsByDependency(constructs, actions) ==
    LET edges == DependencyEdges(constructs, actions)
        step[n \in 0..Len(edges)] ==
            IF n = 0
            THEN [g |-> [verts |-> {constructs[m].URN : m \in 1..Len(constructs)}, edges |-> {}],
                  err |-> "nil"]
            ELSE IF step[n - 1].err # "nil" THEN step[n - 1]
            ELSE TempAddEdge(step[n - 1].g, edges[n][1], edges[n][2])
        built == step[Len(edges)]
    IN  [g |-> built.g, err |-> built.err,
         groups |-> IF built.err = "nil" THEN ResolveDeploymentGroups(built.g) ELSE <<>>]

\* the arguments of sortConstructsByDependency: what the constructs depend
\* on, what the first is bound to and which are to be deleted
SortInputs ==
    {[constructs |-> [n \in 1..Len(UrnOrder) |->
                         [URN       |-> UrnOrder[n],
                          DependsOn |-> InOrder(dependsOn[UrnOrder[n]], UrnOrder),
                          Bindings  |-> IF n = 1 THEN InOrder(bindings, UrnOrder) ELSE <<>>]],
      actions |-> [c \in Range(UrnOrder) |-> IF c \in deleted THEN "delete" ELSE "update"]] :
        dependsOn \in {f \in [Range(UrnOrder) -> SUBSET Range(UrnOrder)] :
                          \A c \in Range(UrnOrder) : c \notin f[c]},
        bindings \in SUBSET {"v", "w"},
        deleted \in SUBSET Range(UrnOrder)}

CallSortConstructsByDependency ==
    /\ callName = "sortConstructsByDependency"
    /\ callOut = NotReturned
    /\ LET sorted == sortConstructsByDependency(callIn.constructs, callIn.actions)
       IN  callOut' = [returned |-> TRUE, g |-> sorted.g, err |-> sorted.err,
                       groups |-> sorted.groups]
    /\ UNCHANGED <<callName, callIn, notCallVars>>

\* the token states one call of Authorize is given to read
MaxTokenReads == 3

\* what getClaims() finds: no credentials or a token that does not parse, or
\* the claims of the token
TokenStates ==
    [getErr : {FALSE}, EmailVerified : BOOLEAN, ProEnabled : BOOLEAN, Expired : BOOLEAN]
    \cup {[getErr |-> TRUE, EmailVerified |-> FALSE, ProEnabled |-> FALSE, Expired |-> FALSE]}

\* if tokenRefreshed { return nil, fmt.Errorf(...) }: the token is refreshed
\* only by a call that was not itself made after a refresh
MayRefresh_Always(tokenRefreshed) == TRUE

MayRefresh(tokenRefreshed) == ~tokenRefreshed

\* authorize(tokenRefreshed): tokens are the states of the stored token that
\* the calls of getClaims find one after the other, failing the calls of
\* CallRefreshToken that return an error; reads and refreshes count the
\* calls of getClaims and of CallRefreshToken so far
RECURSIVE authorize(_, _, _, _, _)
authorize(tokenRefreshed, tokens, failing, reads, refreshes) ==
    IF reads >= Len(tokens)
    THEN [err |-> "no token state left", claims |-> <<>>, reads |-> reads,
          refreshes |-> refreshes, depth |-> refreshes + 1]
    ELSE LET claims == tokens[reads + 1]
             failed(err) == [err |-> err, claims |-> <<>>, reads |-> reads + 1,
                             refreshes |-> refreshes, depth |-> refreshes + 1]
             refreshed(err) ==
                 IF ~MayRefresh(tokenRefreshed) THEN failed(err)
                 ELSE IF refreshes + 1 \in failing
                 THEN [failed("refresh") EXCEPT !.refreshes = refreshes + 1]
                 ELSE authorize(TRUE, tokens, failing, reads + 1, refreshes + 1)
         IN  IF claims.getErr THEN failed("Failed to get credentials for user")
             ELSE IF ~claims.EmailVerified THEN refreshed("has not verified their email")
             ELSE IF ~claims.ProEnabled THEN failed("is not authorized to use KlothoPro")
             ELSE IF claims.Expired THEN refreshed("does not have a valid token")
             ELSE [err |-> "nil", claims |-> claims, reads |-> reads + 1,
                   refreshes |-> refreshes, depth |-> refreshes + 1]

\* Authorize()
Authorize(tokens, failing) == authorize(FALSE, tokens, failing, 0, 0)

\* the arguments of Authorize: a refresh comes between two reads of the token
AuthorizeInputs ==
    {[tokens |-> tokens, failing |-> failing] :
        tokens \in [1..MaxTokenReads -> TokenStates],
        failing \in SUBSET (1..MaxTokenReads - 1)}

CallAuthorize ==
    /\ callName = "Authorize"
    /\ callOut = NotReturned
    /\ LET out == Authorize(callIn.tokens, callIn.failing)
       IN  callOut' = [returned |-> TRUE, err |-> out.err, claims |-> out.claims,
                       reads |-> out.reads, refreshes |-> out.refreshes, depth |-> out.depth]
    /\ UNCHANGED <<callName, callIn, notCallVars>>

\* the resources downstream of the source that connectThroughNamespace looks at
MaxDownstreams == 2

\* what connectThroughNamespace finds for one downstream resource: another
\* type than the target's namespace resource, no vertex in the raw view, no
\* namespace resource, the namespace resource of the target, no path
\* selection graph, a sub-expansion that fails, or one that returns edges
DownstreamKinds ==
    {"other type", "no vertex", "no namespace", "same namespace", "no selection graph",
     "expansion failed", "expanded"}

\* the edges expandEdge returns for the dependency from a resource to the target
ExpandedEdges(from) == <<<<from, "namespace">>, <<"namespace", "target">>>>

\* ExpansionResult{Graph: construct.NewGraph()}: Edges is nil
NewExpansionResult == [Edges |-> <<>>, Graph |-> "graph"]

\* connectThroughNamespace(src, target, ctx, result): result is the callee's
\* own copy of the ExpansionResult struct, which the caller does not get
\* back; the function returns connected and errs
connectThroughNamespace(in, result) ==
    LET step[n \in 0..Len(in.downstreams)] ==
            IF n = 0 THEN [connected |-> FALSE, errs |-> <<>>, result |-> result]
            ELSE LET before == step[n - 1]
                     kind == in.downstreams[n]
                     down == IF n = 1 THEN "down1" ELSE IF n = 2 THEN "down2" ELSE "down3"
                 IN  IF kind \in {"other type", "no namespace", "same namespace",
                                  "no selection graph"}
                     THEN before
                     ELSE IF kind \in {"no vertex", "expansion failed"}
                     THEN [before EXCEPT !.errs = Append(@, kind)]
                     ELSE [before EXCEPT !.result.Edges = @ \o ExpandedEdges(down),
                                         !.connected = TRUE]
    IN  IF ~in.targetNamespaced THEN [connected |-> FALSE, errs |-> <<>>, result |-> result]
        ELSE IF in.downstreamFails
        THEN [connected |-> FALSE, errs |-> <<"downstream">>, result |-> result]
        ELSE step[Len(in.downstreams)]

\* ExpandEdge(ctx, input): the ExpansionResult and the errors it returns;
\* viaNamespace are the edges connectThroughNamespace appended to its copy
ExpandEdge(in) ==
    LET result == NewExpansionResult
        through == connectThroughNamespace(in, result)
        direct == IF through.connected THEN [edges |-> <<>>, errs |-> <<>>]
                  ELSE IF in.expandFails THEN [edges |-> <<>>, errs |-> <<"expansion failed">>]
                  ELSE [edges |-> ExpandedEdges("source"), errs |-> <<>>]
    IN  [result |-> [result EXCEPT !.Edges = @ \o direct.edges],
         errs |-> through.errs \o direct.errs,
         connected |-> through.connected,
         viaNamespace |-> through.result.Edges]

\* the arguments of ExpandEdge
ExpandEdgeInputs ==
    [targetNamespaced : BOOLEAN,
     downstreamFails  : BOOLEAN,
     downstreams      : UNION {[1..n -> DownstreamKinds] : n \in 0..MaxDownstreams},
     expandFails      : BOOLEAN]

CallExpandEdgeThroughNamespace ==
    /\ callName = "ExpandEdge"
    /\ callOut = NotReturned
    /\ LET out == ExpandEdge(callIn)
       IN  callOut' = [returned |-> TRUE, result |-> out.result, errs |-> out.errs,
                       connected |-> out.connected, viaNamespace |-> out.viaNamespace]
    /\ UNCHANGED <<callName, callIn, notCallVars>>

InitCalls ==
    /\ NotCanceled
    /\ OrchIdle
    /\ EngineIdle
    /\ GraphIdle
    /\ DetIdle
    /\ callOut = NotReturned
    /\ \/ callName = "FindPaths" /\ callIn \in FindPathsInputs
       \/ callName = "expandEdge" /\ callIn \in ExpansionInputs
       \/ callName = "ExpandEdges" /\ callIn \in ExpandEdgesInputs
       \/ callName = "GenerateCombinations" /\ callIn \in WorkingInputs
       \/ \E name \in {"ApplyEdgeConstraint", "ApplyEdgeConstraintEndState"} :
             callName = name /\ callIn \in EdgeConstraintInputs(name)
       \/ callName = "sortConstructsByDependency" /\ callIn \in SortInputs
       \/ callName = "renameAndReplaceInTempGraph" /\ callIn \in RenameInputs
       \/ callName = "Create" /\ callIn \in CreateInputs
       \/ callName = "resolveInitialState" /\ callIn \in ResolveInputs
       \/ callName = "Authorize" /\ callIn \in AuthorizeInputs
       \/ callName = "ExpandEdge" /\ callIn \in ExpandEdgeInputs
       \/ \E name \in {"AWS.ExpandConstructs", "Engine.ExpandConstructs"} :
             callName = name /\ callIn \in ExpandConstructsInputs(name)
       \/ /\ callName = "Run"
          /\ callIn \in {[ws |-> in.ws, solutions |-> in.solutions, order |-> in.order,
                          kb |-> kb, kbOrder |-> InOrder(kb, FindPathsEdges)] :
                            in \in WorkingInputs, kb \in {{}, RunKb}}

NextCalls ==
    \/ CallFindPaths
    \/ CallExpandEdge
    \/ CallExpandEdges
    \/ CallGenerateCombinations
    \/ CallRun
    \/ CallApplyEdgeConstraint
    \/ CallApplyEdgeConstraintEndState
    \/ CallSortConstructsByDependency
    \/ CallRenameAndReplaceInTempGraph
    \/ CallAWSExpandConstructs
    \/ CallEngineExpandConstructs
    \/ CallCreate
    \/ CallResolveInitialState
    \/ CallAuthorize
    \/ CallExpandEdgeThroughNamespace

SpecCalls == InitCalls /\ [][NextCalls]_vars

-----------------------------------------------------------------------------
(* Orchestrator.InfraGenerator called from several goroutines *)

\* the goroutines, and the calls each of them makes at most
NumGoroutines == 3
MaxCalls == 2
Goroutines == 1..NumGoroutines

\* o.mu.Lock() returns only while no goroutine holds the mutex
MuFree_Always(mu) == TRUE

MuFree(mu) == mu = NoHolder

\* what NewInfraGenerator() may hand back: a new InfraGenerator and a nil
\* error, or an error together with nil or with a value it made all the same
NewInfraGeneratorResults(allocated) ==
    {[gen |-> allocated + 1, err |-> "nil"],
     [gen |-> Nil, err |-> "error"],
     [gen |-> allocated + 1, err |-> "error"]}

\* a goroutine outside InfraGenerator: what its last call returned
Outside(calls, ret) == [pc |-> "outside", calls |-> calls, ret |-> ret]
NoReturn == [gen |-> Nil, err |-> "none"]

InitOrch ==
    /\ NotCanceled
    /\ EngineIdle
    /\ GraphIdle
    /\ DetIdle
    /\ CallsIdle
    /\ orch = NewOrchestrator
    /\ routines = [p \in Goroutines |-> Outside(0, NoReturn)]

\* o.mu.Lock()
InfraGeneratorLock(p) ==
    /\ routines[p].pc = "outside"
    /\ routines[p].calls < MaxCalls
    /\ MuFree(orch.mu)
    /\ orch' = [orch EXCEPT !.mu = p]
    /\ routines' = [routines EXCEPT ![p] = [pc |-> "locked", calls |-> @.calls + 1,
                                            ret |-> NoReturn]]
    /\ UNCHANGED notOrchVars

\* if o.infraGenerator == nil; otherwise return o.infraGenerator, nil
InfraGeneratorCheck(p) ==
    /\ routines[p].pc = "locked"
    /\ routines' = [routines EXCEPT ![p] =
                        IF orch.infraGenerator = Nil
                        THEN [@ EXCEPT !.pc = "new"]
                        ELSE [@ EXCEPT !.pc = "return",
                                       !.ret = [gen |-> orch.infraGenerator, err |-> "nil"]]]
    /\ UNCHANGED <<orch, notOrchVars>>

\* o.infraGenerator, err = NewInfraGenerator(); return nil, err on an error,
\* o.infraGenerator, nil otherwise
InfraGeneratorNew(p, made) ==
    /\ routines[p].pc = "new"
    /\ orch' = [orch EXCEPT !.infraGenerator = made.gen,
                            !.allocated = IF made.gen = Nil THEN @ ELSE made.gen,
                            !.succeeded = IF made.err = "nil" THEN @ + 1 ELSE @]
    /\ routines' = [routines EXCEPT ![p] =
                        [@ EXCEPT !.pc = "return",
                                  !.ret = IF made.err # "nil" THEN [gen |-> Nil, err |-> made.err]
                                          ELSE [gen |-> made.gen, err |-> "nil"]]]
    /\ UNCHANGED notOrchVars

\* defer o.mu.Unlock(), and the call returns
InfraGeneratorUnlock(p) ==
    /\ routines[p].pc = "return"
    /\ orch' = [orch EXCEPT !.mu = NoHolder]
    /\ routines' = [routines EXCEPT ![p] = Outside(@.calls, @.ret)]
    /\ UNCHANGED notOrchVars

NextOrch ==
    \/ \E p \in Goroutines : InfraGeneratorLock(p)
    \/ \E p \in Goroutines : InfraGeneratorCheck(p)
    \/ \E p \in Goroutines, made \in NewInfraGeneratorResults(orch.allocated) :
          InfraGeneratorNew(p, made)
    \/ \E p \in Goroutines : InfraGeneratorUnlock(p)

SpecOrch == InitOrch /\ [][NextOrch]_vars

-----------------------------------------------------------------------------
(* Claims about Engine.SolveGraph and Engine.Run *)

\* SolveGraph has returned to Run
SolveGraphReturned == pc = "solved"

\* the index of the last iteration SolveGraph executed
LastIteration == iterations - 1

\* everything the last executed iteration recorded: its errorMap entry and its
\* unsatisfied constraints
RecordedInLastIteration ==
    Range(ErrorsAt(errorMap, LastIteration))
        \cup {UnsatisfiedError(LastIteration, c) : c \in Range(unsatisfied)}

\* Run went through every context
RunSolvedAll == pc = "done" /\ Len(results) = numContexts

\* the first context, in iteration order, whose SolveGraph returned a nil error (0: none)
FirstSolved ==
    LET ok == {k \in 1..Len(results) : ~results[k].failed}
    IN  IF ok = {} THEN 0 ELSE CHOOSE k \in ok : \A l \in ok : k <= l

\* C1: SolveGraph enters its loop body at most NUM_LOOPS (5) times, whatever errors
\* the iterations record; the body never runs with i >= NUM_LOOPS.
C1_AtMostFiveIterations ==
    /\ iterations <= NUM_LOOPS
    /\ pc \in {"expand", "configure", "operational", "validate"} => i < NUM_LOOPS

\* five iterations ran, each recording an error, and SolveGraph returned
C1_Witness ==
    /\ SolveGraphReturned
    /\ iterations = NUM_LOOPS
    /\ \A j \in 0..(NUM_LOOPS - 1) : ErrorsAt(errorMap, j) # <<>>

\* C2: if the fifth iteration records any error (expansion, configuration,
\* MakeResourcesOperational, a resource that is not operational, an unsatisfied
\* constraint) then SolveGraph returns a non-nil error.
C2_LastIterationErrorFails ==
    (SolveGraphReturned /\ iterations = NUM_LOOPS /\ RecordedInLastIteration # {})
        => retErr # NoError

\* C3: a nil error from SolveGraph means every constraint is satisfied on the graph
\* and every resource of the graph is operational.
C3_SuccessMeansValid ==
    (SolveGraphReturned /\ retErr = NoError)
        => (satisfied = Constraints /\ graph.res \subseteq operational)

\* C4: Run returns the graph of the first context whose SolveGraph succeeded.
C4_FirstSolvedReturned ==
    (RunSolvedAll /\ FirstSolved # 0) => runRet.graph = FirstSolved

\* C5: when SolveGraph fails for every context, Run returns the first context's graph
\* with a non-nil error.
C5_AllFailedIsError ==
    (RunSolvedAll /\ FirstSolved = 0) => (runRet.graph = 1 /\ runRet.err # "nil")

C7_SameGraphEveryExecution ==
    \A m, n \in 1..Len(detReturned) : detReturned[m].graph = detReturned[n].graph

\* UpdateResourceId(g, old) has returned
UpdateReturned == lastOp.name = "UpdateResourceId"

\* UpdateResourceId(g, old) has returned nil for a resource whose ID had changed
Renamed == UpdateReturned /\ lastOp.errs = {} /\ lastOp.newId # lastOp.id

\* RemoveResource(g, id) has returned, id having been a vertex
RemoveReturned == lastOp.name = "RemoveResource" /\ HasVertex(lastOp.before, lastOp.id)

\* the resources of a graph
ResourcesOf(gr) == {gr.verts[k] : k \in DOMAIN gr.verts}

\* r holds a ResourceId or a PropertyRef of id
HoldsRef(gr, r, id) == gr.objs[r].prop \in {IdVal(id), RefVal(id)}

\* the resources that depended on, or were depended on by, the resource of the last call
NeighborsBefore ==
    {lastOp.before.verts[e[2]] : e \in {d \in lastOp.before.edges : d[1] = lastOp.id}}
        \cup {lastOp.before.verts[e[1]] : e \in {d \in lastOp.before.edges : d[2] = lastOp.id}}

\* C8: after UpdateResourceId(old -> new) has succeeded, no resource anywhere in
\* the graph holds a ResourceId or a PropertyRef of old
C8_NoReferenceAnywhere ==
    Renamed => \A r \in ResourcesOf(resGraph) : ~HoldsRef(resGraph, r, lastOp.id)

\* C8: after UpdateResourceId(old -> new) has succeeded, the resources joined to
\* the renamed one by an edge hold new wherever they held old, and every other
\* resource (the renamed one too) holds what it held
C8_NeighborsRewritten ==
    Renamed =>
        /\ \A r \in NeighborsBefore :
              /\ ~HoldsRef(resGraph, r, lastOp.id)
              /\ lastOp.before.objs[r].prop = IdVal(lastOp.id)
                    => resGraph.objs[r].prop = IdVal(lastOp.newId)
              /\ lastOp.before.objs[r].prop = RefVal(lastOp.id)
                    => resGraph.objs[r].prop = RefVal(lastOp.newId)
              /\ ~HoldsRef(lastOp.before, r, lastOp.id)
                    => resGraph.objs[r].prop = lastOp.before.objs[r].prop
        /\ \A r \in ResourcesOf(lastOp.before) \ NeighborsBefore :
              resGraph.objs[r].prop = lastOp.before.objs[r].prop

\* a dependent of the renamed resource held a reference to old and holds new now
C8_Witness ==
    /\ Renamed
    /\ \E k \in DOMAIN lastOp.before.verts :
          /\ <<k, lastOp.id>> \in lastOp.before.edges
          /\ HoldsRef(lastOp.before, lastOp.before.verts[k], lastOp.id)
          /\ HoldsRef(resGraph, lastOp.before.verts[k], lastOp.newId)

C10_ErrorLeavesGraphUnchanged ==
    (UpdateReturned /\ lastOp.errs # {}) => resGraph = lastOp.before

\* C10: an error of UpdateResourceId that is not a failed property write leaves
\* the graph as it was before the call; a failed property write returns with
\* the vertex keyed by the new id and the old key gone
C10_EarlyErrorLeavesGraphUnchanged ==
    /\ (UpdateReturned /\ lastOp.errs # {} /\ "property path error" \notin lastOp.errs)
          => resGraph = lastOp.before
    /\ (UpdateReturned /\ "property path error" \in lastOp.errs)
          => /\ ~HasVertex(resGraph, lastOp.id)
             /\ HasVertex(resGraph, lastOp.newId)
             /\ resGraph # lastOp.before

\* the new id was a vertex already: the call failed and the graph, which holds
\* edges of the resource, is as it was
C10_Witness ==
    /\ UpdateReturned
    /\ lastOp.errs = {"ErrVertexAlreadyExists"}
    /\ resGraph = lastOp.before
    /\ \E e \in resGraph.edges : e[1] = lastOp.id \/ e[2] = lastOp.id

-----------------------------------------------------------------------------
(* Claims about the paths of the knowledge base and about path selection *)

\* a call of the function has returned
Returned(name) == callName = name /\ callOut.returned

\* the edges expandEdge added to the path-selection graph
AddedEdges == callOut.temp.edges \ callIn.temp.edges

\* C11: every hop of every path FindPaths returns is an edge of the knowledge
\* base, every edge expandPath adds to the path-selection graph has an edge
\* template, and so has every hop of the selected path when the graph was
\* built of edges that have one
C11_OnlyKnowledgeBaseHops ==
    /\ Returned("FindPaths")
       => \A n \in 1..Len(callOut.paths) :
             \A m \in 1..Len(callOut.paths[n]) : callOut.paths[n][m] \in callIn.kb
    /\ Returned("expandEdge")
       => /\ \A e \in AddedEdges : TemplateKey(e[1], e[2]) \in callIn.kb
          /\ (\A e \in callIn.temp.edges : TemplateKey(e[1], e[2]) \in callIn.kb)
             => \A e \in EdgesOfPath(callOut.path) : TemplateKey(e[1], e[2]) \in callIn.kb

\* expandPath added edges and refused an edge that has no template
C11_Witness ==
    /\ Returned("expandEdge")
    /\ AddedEdges # {}
    /\ \E e \in callOut.errs : e[1] = "could not find edge template"

\* C12: the path ExpandEdges selects for a dependency holds the type of every
\* resource of NodeMustExist of its edge data and of no resource of
\* NodeMustNotExist
C12_EveryRequiredNodeOnPath ==
    (Returned("ExpandEdges") /\ callOut.selected # <<>>)
    => LET constraint == EdgeConstraintOf(callIn.dag, ConstrainedDependency)
       IN  /\ constraint.NodeMustExist \subseteq TypesOf(callOut.selected)
           /\ constraint.NodeMustNotExist \cap TypesOf(callOut.selected) = {}

\* an edge among others honours the unique flags of its template: a unique
\* source has no other edge to a target of the type, a unique target none from
\* a source of the type
HonoursUnique(unique, edges, e) ==
    /\ TemplateKey(e[1], e[2]) \in unique.Source
       => ~\E f \in edges \ {e} : f[1] = e[1] /\ TypeOf(f[2]) = TypeOf(e[2])
    /\ TemplateKey(e[1], e[2]) \in unique.Target
       => ~\E f \in edges \ {e} : f[2] = e[2] /\ TypeOf(f[1]) = TypeOf(e[1])

\* C13 as stated, for an expansion that leaves one path to select: no edge of
\* the selected path, once its phantoms are renamed, violates the unique
\* flags of its template among the dataflow edges of the solution
C13_SelectedPathHonoursUnique ==
    (/\ Returned("expandEdge")
     /\ callOut.errs = {}
     /\ Cardinality(AllPathsBetween(callOut.temp, DepSource, DepTarget)) = 1)
    => \A e \in EdgesOfPath(callOut.result) :
          HonoursUnique(callIn.unique, callIn.dataflow \cup EdgesOfPath(callOut.result), e)

-----------------------------------------------------------------------------
(* Claims about Engine.GenerateCombinations and Engine.Run *)

\* C14: in every graph GenerateCombinations builds, every dependency u -> v
\* of the working state is an edge s -> t for every s directly mapped from u
\* and every t directly mapped from v, a resource being mapped to itself, and
\* the edge carries the EdgeData of the dependency
C14_DependenciesCopiedWithData ==
    (Returned("GenerateCombinations") /\ callOut.err = {})
    => \A n \in 1..Len(callOut.contexts) : \A dep \in callIn.ws.deps :
          \A source \in MappedNodes(callIn.ws, callOut.mappings[n], dep[1]),
             target \in MappedNodes(callIn.ws, callOut.mappings[n], dep[2]) :
              /\ <<source, target>> \in callOut.contexts[n].deps
              /\ callOut.contexts[n].data[<<source, target>>] = callIn.ws.data[dep]

\* the elements of the product of the expansion solutions: one solution for
\* every construct that has solutions
SolutionProduct(solutions) ==
    {f \in [DOMAIN solutions -> UNION {Range(solutions[c]) : c \in DOMAIN solutions}] :
        \A c \in DOMAIN solutions : f[c] \in Range(solutions[c])}

\* a cap of the product the model can tell from no cap
CombinationCap == 3

C16_RunReturnsInput ==
    (Returned("Run") /\ callIn.ws.abstract = {})
    => /\ callOut.solved
       /\ callOut.graph.res = callIn.ws.resources
       /\ callOut.graph.deps = callIn.ws.deps

\* the dependencies of the graph a constraint targets: the dependency
\* itself in the working state, the dependencies between the mapped
\* resources in the end state
TargetedDependencies(constraint) ==
    IF callName = "ApplyEdgeConstraint" THEN {constraint.Target}
    ELSE (IF constraint.Target[1] \in Constructs THEN EndStateMapping[constraint.Target[1]]
          ELSE {constraint.Target[1]})
         \X (IF constraint.Target[2] \in Constructs THEN EndStateMapping[constraint.Target[2]]
             ELSE {constraint.Target[2]})

\* the node of a constraint is in the list of the data of a dependency
Recorded(gr, constraint, e) ==
    /\ e \in gr.deps
    /\ e \in DOMAIN gr.data
    /\ constraint.Node \in (IF constraint.Operator = "must_contain"
                            THEN gr.data[e].NodeMustExist ELSE gr.data[e].NodeMustNotExist)

\* C17: after a sequence of MustContain and MustNotContain constraints the
\* data of every targeted dependency lists the node of every constraint that
\* was applied to it without error
C17_EveryConstraintRecorded ==
    (Returned("ApplyEdgeConstraint") \/ Returned("ApplyEdgeConstraintEndState"))
    => \A n \in (1..Len(callIn.constraints)) \ callOut.failed :
          \A e \in TargetedDependencies(callIn.constraints[n]) :
              Recorded(callOut.g, callIn.constraints[n], e)

-----------------------------------------------------------------------------
(* Claims about cycles, phantom names and the order of construct expansion *)

\* C18: the path-selection graph is acyclic after the paths were expanded,
\* and so is the graph sortConstructsByDependency builds; when the
\* dependencies of the constructs hold a cycle it returns the error of the
\* edge that closes it, and that edge is not in the graph
C18_NoCycleAfterEdgeAdditions ==
    /\ Returned("expandEdge") => Acyclic(callOut.temp.edges)
    /\ Returned("sortConstructsByDependency")
       => /\ Acyclic(callOut.g.edges)
          /\ ~Acyclic(Range(DependencyEdges(callIn.constructs, callIn.actions)))
             => callOut.err # "nil"
          /\ callOut.err = "nil"
             => callOut.g.edges = Range(DependencyEdges(callIn.constructs, callIn.actions))

\* an edge that closes a cycle was refused while the constructs were sorted
C18_Witness ==
    /\ Returned("sortConstructsByDependency")
    /\ callOut.err = "ErrEdgeCreatesCycle"
    /\ callOut.g.edges # {}

\* the positions of the phantom vertices of a path
PhantomPositions(path) == {n \in 1..Len(path) : IsPhantom(path[n])}

\* the id is named src.name-dst.name or src.name-dst.name-N
NamedAfterDependency(id) ==
    LET name == NameOf(DepSource) \o NameOf(DepTarget)
    IN  NameOf(id) = name \/ \E suffix \in 0..SuffixLimit : NameOf(id) = Append(name, suffix)

\* C19: after renameAndReplaceInTempGraph every phantom of the path has an
\* id named after the dependency that no vertex of the raw view has and no
\* other phantom of the path was given, however many ids of that name the
\* raw view holds
C19_PhantomsGetFreshIds ==
    Returned("renameAndReplaceInTempGraph")
    => \A n \in PhantomPositions(callIn.path) :
          /\ NamedAfterDependency(callOut.result[n])
          /\ callOut.result[n] \notin callIn.res
          /\ \A m \in PhantomPositions(callIn.path) \ {n} :
                callOut.result[m] # callOut.result[n]

\* every construct that is reached is reached after the constructs it
\* depends on that are reached at all
DependenciesFirst(visited, edges) ==
    \A n, m \in 1..Len(visited) : <<visited[n], visited[m]>> \in edges => m < n

\* C20 as stated: both AWS.ExpandConstructs and Engine.ExpandConstructs
\* expand a construct only after every construct it depends on
C20_ConstructsInReverseTopologicalOrder ==
    (Returned("AWS.ExpandConstructs") \/ Returned("Engine.ExpandConstructs"))
    => DependenciesFirst(callOut.visited, callIn.edges)

\* C20, amended: AWS.ExpandConstructs reaches every construct of an acyclic
\* construct graph once, each after every construct it depends on, and
\* reaches none when the graph has a cycle
C20_AWSExpandsDependenciesFirst ==
    Returned("AWS.ExpandConstructs")
    => IF Acyclic(callIn.edges)
       THEN /\ callOut.err = "nil"
            /\ Len(callOut.visited) = Cardinality(ConstructIds)
            /\ Range(callOut.visited) = ConstructIds
            /\ DependenciesFirst(callOut.visited, callIn.edges)
       ELSE callOut.err # "nil" /\ callOut.visited = <<>> /\ callOut.dag = {}

\* an execution unit that depends on a construct that depends on a third
\* was turned into a lambda function
C20_Witness ==
    /\ Returned("AWS.ExpandConstructs")
    /\ callOut.err = "nil"
    /\ \E a, b, c \in ConstructIds :
          /\ {<<a, b>>, <<b, c>>} \subseteq callIn.edges
          /\ <<"lambda_function", a>> \in callOut.dag

-----------------------------------------------------------------------------
(* Claims about cancellation, path selection and resource creation *)

\* C21: a run that was asked to cancel while it was solving returns a
\* Canceled diagnostic and no graph
C21_CanceledRunReturnsCanceled ==
    (pc = "done" /\ cancelRequested)
    => runRet.err = "Canceled" /\ runRet.graph = 0

\* the valid paths of the dependency ExpandEdges was called with
ValidPathsOfCall ==
    LET constraint == EdgeConstraintOf(callIn.dag, ConstrainedDependency)
        paths == FindPaths(callIn.kb, callIn.order, ConstrainedDependency[1],
                           ConstrainedDependency[2])
    IN  Range(ValidPaths(paths, constraint.NodeMustExist, constraint.NodeMustNotExist))

\* the valid paths no valid path is shorter than
MinimumPaths(valid) == {p \in valid : \A q \in valid : Len(p) <= Len(q)}

\* C22: ExpandEdges expands a dependency along a valid path of minimum
\* length; it reports the multiple-paths error exactly when two or more valid
\* paths have that length, and then leaves the dependency unexpanded
C22_TieReportedExactlyAndNotExpanded ==
    Returned("ExpandEdges")
    => LET minimum == MinimumPaths(ValidPathsOfCall)
           reported == MultiplePathsError(ConstrainedDependency) \in Range(callOut.errs)
       IN  /\ minimum # {} => callOut.selected \in minimum
           /\ reported <=> Cardinality(minimum) >= 2
           /\ reported => callOut.dag = callIn.dag

\* the type a path leaves on an edge and the type it arrives at: an edge of
\* reverse direction is walked from its destination to its source
Leaves(e) == IF EdgeDetails(e).ReverseDirection THEN e[2] ELSE e[1]

Arrives(e) == IF EdgeDetails(e).ReverseDirection THEN e[1] ELSE e[2]

\* the types a path visits, from the source on
VisitedTypes(source, path) == <<source>> \o [n \in 1..Len(path) |-> Arrives(path[n])]

NoTypeTwice(visits) == \A n, m \in 1..Len(visits) : visits[n] = visits[m] => n = m

\* C23: no path FindPaths returns visits a type twice; stated for the paths
\* between two different types, as the path from a type to itself is the edge
\* of the type to itself
C23_NoTypeVisitedTwice ==
    (Returned("FindPaths") /\ callIn.source # callIn.dest)
    => \A n \in 1..Len(callOut.paths) :
          NoTypeTwice(VisitedTypes(callIn.source, callOut.paths[n]))

\* C24: a Create for an id the graph already holds succeeds, leaves the
\* vertices of the graph as they were and adds the construct references of
\* the call to those the resource had
C24_CreateIsIdempotent ==
    (Returned("Create") /\ callOut.id \in DOMAIN callIn.dag)
    => /\ callOut.err = "nil"
       /\ DOMAIN callOut.dag = DOMAIN callIn.dag
       /\ callOut.dag = [callIn.dag EXCEPT ![callOut.id] = @ \cup callIn.params.Refs]

\* ConfigureEdge was called for the dependency in iteration j and failed
ConfigureFailedIn(j, d) == ConfigureError(j, d) \in Range(ErrorsAt(errorMap, j))

\* a step of SolveGraph leaves a configured edge configured and records no
\* failure of ConfigureEdge for it: every call of ConfigureEdge can fail, so
\* the edge is not handed to ConfigureEdge again
ConfiguredEdgesStay ==
    pc \in {"loop", "expand", "configure", "operational", "validate"}
    => \A d \in configuredEdges :
          /\ d \in configuredEdges'
          /\ \A j \in 0..(NUM_LOOPS - 1) :
                ConfigureError(j, d) \in Range(ErrorsAt(errorMap', j)) => ConfigureFailedIn(j, d)

\* after the edges of iteration i were configured, an edge that failed in
\* iteration i - 1 was handed to ConfigureEdge again
RetriedInNextIteration ==
    (pc = "operational" /\ i >= 1)
    => \A d \in graph.deps :
          ConfigureFailedIn(i - 1, d) => d \in configuredEdges \/ ConfigureFailedIn(i, d)

\* the same when expandEdges succeeded in iteration i
RetriedInNextConfiguringIteration ==
    (pc = "operational" /\ i >= 1 /\ ExpandError(i) \notin Range(ErrorsAt(errorMap, i)))
    => \A d \in graph.deps :
          ConfigureFailedIn(i - 1, d) => d \in configuredEdges \/ ConfigureFailedIn(i, d)

\* C25 as stated: within one SolveGraph a configured edge is never
\* configured again, and an edge whose configuration failed in iteration i is
\* attempted again in iteration i + 1
C25_ConfiguredOnceRetriedNext == [][ConfiguredEdgesStay]_vars /\ []RetriedInNextIteration

\* C25, amended: a configured edge is never configured again, and an edge
\* whose configuration failed in iteration i is attempted again in iteration
\* i + 1 when expandEdges succeeds in that iteration
C25_ConfiguredOnceRetriedWhenExpanded ==
    [][ConfiguredEdgesStay]_vars /\ []RetriedInNextConfiguringIteration

\* an edge failed in iteration 0, was configured later, and a later
\* iteration configured edges without a failure for it
C25_Witness ==
    /\ pc = "operational" /\ i >= 2
    /\ ExpandError(i) \notin Range(ErrorsAt(errorMap, i))
    /\ \E d \in configuredEdges :
          /\ ConfigureFailedIn(0, d)
          /\ ~ConfigureFailedIn(i - 1, d) /\ ExpandError(i - 1) \notin Range(ErrorsAt(errorMap, i - 1))

-----------------------------------------------------------------------------
(* Claims about the orchestrator *)

\* the action the claim gives a construct
ExpectedAction(c, state, ir) ==
    IF c \in ir /\ c \notin DOMAIN state THEN "create"
    ELSE IF c \in ir THEN "update" ELSE "delete"

\* C26: the actions resolveInitialState returns give every construct of the
\* incoming environment and of the stored state one action: create for a
\* construct only the environment has, update for one both have, delete for
\* one only the state has; the state holds each with the pending status of
\* its action
C26_OneActionForEveryConstruct ==
    (Returned("resolveInitialState") /\ callOut.err = "nil")
    => /\ DOMAIN callOut.actions = callIn.ir \cup DOMAIN callIn.state
       /\ DOMAIN callOut.state = callIn.ir \cup DOMAIN callIn.state
       /\ \A c \in DOMAIN callOut.actions :
             /\ callOut.actions[c] = ExpectedAction(c, callIn.state, callIn.ir)
             /\ callOut.state[c] = callOut.actions[c] \o "_pending"

\* one construct was created, one updated and one deleted
C26_Witness ==
    /\ Returned("resolveInitialState") /\ callOut.err = "nil"
    /\ {callOut.actions[c] : c \in DOMAIN callOut.actions} = {"create", "update", "delete"}

\* the deployment group sortConstructsByDependency returned a construct in,
\* 0 for a construct in none
GroupOf(c) ==
    LET holding == {n \in 1..Len(callOut.groups) : c \in callOut.groups[n]}
    IN  IF holding = {} THEN 0 ELSE CHOOSE n \in holding : TRUE

\* what a construct depends on or is bound to
NeededBy(c) == Range(c.DependsOn) \cup Range(c.Bindings)

\* C27: in the deployment groups sortConstructsByDependency returns, what a
\* construct depends on or is bound to is in an earlier group than the
\* construct, and in a later one when the construct is to be deleted; no
\* group holds a construct together with one it depends on or is bound to
C27_GroupsFollowDependencies ==
    (Returned("sortConstructsByDependency") /\ callOut.err = "nil")
    => \A n \in 1..Len(callIn.constructs) :
          LET a == callIn.constructs[n]
          IN  /\ GroupOf(a.URN) > 0
              /\ \A b \in NeededBy(a) :
                    /\ GroupOf(b) > 0
                    /\ GroupOf(b) # GroupOf(a.URN)
                    /\ IF callIn.actions[a.URN] = "delete"
                       THEN GroupOf(a.URN) < GroupOf(b)
                       ELSE GroupOf(b) < GroupOf(a.URN)

\* three groups were returned for a deleted construct that depends on one
\* that is kept, which in turn depends on a third
C27_Witness ==
    /\ Returned("sortConstructsByDependency") /\ callOut.err = "nil"
    /\ Len(callOut.groups) = 3
    /\ \E n, m \in 1..Len(callIn.constructs) :
          /\ callIn.actions[callIn.constructs[n].URN] = "delete"
          /\ callIn.actions[callIn.constructs[m].URN] # "delete"
          /\ callIn.constructs[m].URN \in NeededBy(callIn.constructs[n])
          /\ NeededBy(callIn.constructs[m]) # {}

\* the InfraGenerator values that calls of InfraGenerator returned with a
\* nil error
ReturnedGenerators ==
    {routines[p].ret.gen : p \in {q \in DOMAIN routines : routines[q].ret.err = "nil"}}

\* C28: however the goroutines that call Orchestrator.InfraGenerator are
\* interleaved, NewInfraGenerator returns a nil error at most once for the
\* Orchestrator, and the calls that return a nil error all return the same
\* InfraGenerator, which is not nil
C28_OneInfraGenerator ==
    /\ orch.succeeded <= 1
    /\ Cardinality(ReturnedGenerators) <= 1
    /\ Nil \notin ReturnedGenerators

\* NewInfraGenerator failed for one goroutine and succeeded for another, and
\* a third was handed the InfraGenerator the second made
C28_Witness ==
    /\ routines # <<>>
    /\ orch.succeeded = 1
    /\ \E p, q, r \in Goroutines :
          /\ routines[p].pc = "outside" /\ routines[p].ret.err = "error"
          /\ routines[q].pc = "outside" /\ routines[q].ret.err = "nil"
          /\ routines[r].pc = "outside" /\ routines[r].ret.err = "nil"
          /\ q # r
          /\ routines[q].calls = 1 /\ routines[r].calls = 1

-----------------------------------------------------------------------------
(* Claims about Authorize and ExpandEdge *)

\* the token state the last getClaims of the call found
LastTokenRead == callIn.tokens[callOut.reads]

\* C29: one call of Authorize calls CallRefreshToken at most once and
\* authorize calls itself at most once; when the token it finds after the
\* refresh is still unverified or expired it returns an error; it returns
\* whatever the token states are, having read at most two of them
C29_AtMostOneRefresh ==
    Returned("Authorize")
    => /\ callOut.refreshes <= 1
       /\ callOut.depth <= 2
       /\ callOut.reads <= 2
       /\ callOut.reads = 2 => callOut.refreshes = 1
       /\ (callOut.reads = 2 /\ ~LastTokenRead.getErr
           /\ (~LastTokenRead.EmailVerified \/ LastTokenRead.Expired))
          => callOut.err \notin {"nil", "refresh"}
       /\ callOut.err # "no token state left"

\* the token was expired, was refreshed, and was expired again
C29_Witness ==
    /\ Returned("Authorize")
    /\ callOut.refreshes = 1 /\ callOut.reads = 2
    /\ callIn.tokens[1].EmailVerified /\ callIn.tokens[1].ProEnabled /\ callIn.tokens[1].Expired
    /\ LastTokenRead.EmailVerified /\ LastTokenRead.ProEnabled /\ LastTokenRead.Expired
    /\ callOut.err = "does not have a valid token"

\* C30: when connectThroughNamespace reports that it connected the source
\* to the target, the edges its sub-expansions produced are among the Edges
\* of the ExpansionResult that ExpandEdge returns
C30_NamespaceEdgesReturned ==
    (Returned("ExpandEdge") /\ callOut.connected)
    => Range(callOut.viaNamespace) \subseteq Range(callOut.result.Edges)

\* what the code does instead: a connection through a namespace returns no
\* edges at all, and without one the edges are those of the direct expansion
C30_ConnectedReturnsNoEdges ==
    Returned("ExpandEdge")
    => /\ callOut.connected => (callOut.result.Edges = <<>> /\ callOut.viaNamespace # <<>>)
       /\ ~callOut.connected => callOut.viaNamespace = <<>>

=============================================================================
